---------------------------- MODULE Spec2Model ----------------------------
(***************************************************************************)
(* A model of the YNAB4 -> Firefly III importer                            *)
(* (src/ynab4_firefly_exporter/main.py).                                   *)
(*                                                                         *)
(* Modelling conventions                                                   *)
(*  - A date is an integer MMDD (131 = 31 January, 201 = 1 February);      *)
(*    date.replace(day=1), the month of a date, is Month(d).               *)
(*  - Decimal amounts are integers.                                        *)
(*  - The payee text of a register row is the record                       *)
(*    [marker, name]: marker says that the text holds the literal          *)
(*    "Transfer : ", name is the account name that follows it (or the      *)
(*    payee name when there is no marker).  Account names hold no " : "    *)
(*    and no " / ".                                                        *)
(*  - A Python dict is a function; dict.get(k, d) is Get(f, k, d).         *)
(*  - The remote system holds, per class and key, the number of entities   *)
(*    under the key and the attributes it reports.  A mutating call is     *)
(*    accepted, rejected (4xx, nothing changes) or answered 500 with the   *)
(*    change applied.  The remote rejects a transaction group whose hash   *)
(*    it holds when error_if_duplicate_hash is sent.                       *)
(*  - A cache entry is [shape, id, attributes]: shape says what Python     *)
(*    value is cached (a dict of the remote, an int id, an id string).     *)
(*  - The memo of a register row is the record [code, number, k] of what   *)
(*    MEMO_RE finds in it: the three capitals (group 1), the text of the   *)
(*    number (group 2) and whether a K follows it (group 3); code = ""     *)
(*    when the pattern does not match.  "(Split " in memo is the field     *)
(*    split of the row; in the rows of the model the marker precedes the   *)
(*    annotation.                                                          *)
(*  - An amount of a line item is DecValue(n), or LazyValue(code, n, d)    *)
(*    for the partial application of _forex_calculator that fix_foreign    *)
(*    leaves behind, or NoneValue.  Exchange rates are integers.           *)
(*  - The rename tables of the configuration (payee_mapping,               *)
(*    budget_mapping) are empty and category_field and budget_field have   *)
(*    their default, "Sub Category".                                       *)
(***************************************************************************)
EXTENDS Integers, Sequences, FiniteSets, TLC

VARIABLES
    \* ---- Importer: register and processing (Importer._process_transactions)
    all_transactions,    \* self.all_transactions: the rows of the register
    ppc,                 \* position in _process_transactions
    all_tx_grouped,      \* the sorted list of row groups of _process_transactions
    gidx,                \* number of row groups the main loop has processed
    transfers_seen_map,  \* the local dict transfers_seen_map
    transaction_groups,  \* self.data.transaction_groups
    \* ---- FireflySession.get_all_pages
    remote_list,         \* the list the remote serves, in its order
    per_page,            \* the number of entries the remote puts on a page
    gpc,                 \* position in get_all_pages
    params_page,         \* params["page"] (0: not set)
    response,            \* the response of the last fetch
    all_response,        \* all_response["data"]
    fetched,             \* the pages fetched so far, in order
    \* ---- Importer.run: the synchronisation with the remote
    data,                \* self.data and self.config: the local targets
    firefly_data,        \* self.firefly_data: the cache in memory
    cache_file,          \* .cache/firefly_data.json: the cache on disk
    remote,              \* the entities the remote system holds
    run,                 \* the number of the run of the importer
    spc,                 \* the method Importer.run is in
    sub,                 \* the position in that method
    idx,                 \* the number of targets its loop has handled
    listing,             \* the keys of all_pages["data"] of that method
    call,                \* the remote call the last step issued
    step_calls,          \* the remote calls of the class step so far
    unsaved,             \* the class of a successful mutating call not yet followed by a cache write
    baseline,            \* how the previous run ended and the remote's entities at that time
    gix,                 \* the index of the group _create_transactions is at
    current_month,       \* the local current_month of _create_transactions
    upload_log,          \* the groups posted and the months verified, in order
    \* ---- Importer._forex_calculator
    forex_log            \* the lookups of _forex_calculator so far, over all runs

procVars == <<all_transactions, ppc, all_tx_grouped, gidx, transfers_seen_map,
              transaction_groups>>

pageVars == <<remote_list, per_page, gpc, params_page, response, all_response, fetched>>

syncVars == <<data, firefly_data, cache_file, remote, run, spc, sub, idx,
              listing, call, step_calls, unsaved, baseline, gix, current_month, upload_log>>

forexVars == <<forex_log>>

vars == <<procVars, pageVars, syncVars, forexVars>>

-----------------------------------------------------------------------------
(* Generic helpers *)

Get(f, k, d) == IF k \in DOMAIN f THEN f[k] ELSE d

Put(f, k, v) == [x \in DOMAIN f \cup {k} |-> IF x = k THEN v ELSE f[x]]

Month(d) == d \div 100

RECURSIVE SeqsUpTo(_, _)
\* all sequences over S of length at most n
SeqsUpTo(S, n) ==
    IF n = 0 THEN {<<>>}
    ELSE LET shorter == SeqsUpTo(S, n - 1)
         IN  shorter \cup {Append(s, x) : s \in {t \in shorter : Len(t) = n - 1}, x \in S}

\* the values of the importer, by Python type
NoneValue == [t |-> "none", v |-> 0]

StrValue(x) == [t |-> "str", v |-> x]

BoolValue(b) == [t |-> "bool", v |-> b]

IntValue(n) == [t |-> "int", v |-> n]

DecValue(n) == [t |-> "dec", v |-> n]

DateValue(d) == [t |-> "date", v |-> d]

DateStrValue(d) == [t |-> "datestr", v |-> d]

\* a JSON string that reads as the number n, such as "100.00"
NumStrValue(n) == [t |-> "numstr", v |-> n]

\* a JSON string of date d with a time of day, "YYYY-MM-DDT00:00:00+00:00"
DateTimeStrValue(d) == [t |-> "datetimestr", v |-> d]

-----------------------------------------------------------------------------
(* YNABTransaction *)

is_expense(tx) == tx.outflow > 0

is_deposit(tx) == tx.inflow > 0

is_transfer(tx) == tx.cls = "YNABTransferTransaction" \/ tx.payee.marker

transfer_account(tx) == tx.payee.name

fix_transfer(tx) ==
    IF ~is_transfer(tx) THEN tx
    ELSE IF tx.outflow > 0
         THEN [tx EXCEPT !.cls = "YNABTransferTransaction",
                         !.payee = [marker |-> FALSE, name |-> transfer_account(tx)]]
         ELSE [tx EXCEPT !.cls = "YNABTransferTransaction",
                         !.account = transfer_account(tx),
                         !.payee = [marker |-> FALSE, name |-> tx.account],
                         !.outflow = tx.inflow,
                         !.inflow = tx.outflow]

\* Config.account(acc).currency: the currency configured for the account, ""
\* when there is none
account_currency(acc) == Get(data.accounts, acc, "")

\* Config.is_foreign
is_foreign(acc) == account_currency(acc) # "" /\ account_currency(acc) # data.currency

\* config.is_foreign(self.payee): the payee text is the name of an account
\* only when it does not hold the marker "Transfer : "
is_foreign_payee(tx) == ~tx.payee.marker /\ is_foreign(tx.payee.name)

NoMemo == [code |-> "", number |-> "", k |-> FALSE]

\* MEMO_RE.match(self.memo) is not None
MEMO_RE_match_never(memo) == FALSE

MEMO_RE_match(memo) == memo.code # ""

\* Decimal(m.group(2).replace(",", "")) for the number texts of the model
Decimal_without_commas(text) ==
    IF text = "7" THEN 7
    ELSE IF text = "45" THEN 45
    ELSE IF text = "1,200" THEN 1200
    ELSE -1

\* lines 157-160: the amount read from the memo; m.group(2) is the text of
\* the number
memo_amount(memo) ==
    LET amount == Decimal_without_commas(memo.number)
    IN  IF memo.number = "K" THEN amount * 1000 ELSE amount

\* partial(forex_calculator, foreign_currency_code, amount, date)
LazyValue(code, amount, date) == [t |-> "lazy", v |-> amount, code |-> code, date |-> date]

\* fix_foreign raises: the assertion of lines 146-148 fails
fix_foreign_fails_never(tx) == FALSE

fix_foreign_fails(tx) ==
    /\ is_foreign(tx.account) \/ is_foreign_payee(tx)
    /\ is_transfer(tx) /\ is_foreign(tx.account) /\ is_foreign_payee(tx)
    /\ account_currency(tx.account) # account_currency(tx.payee.name)

\* YNABTransaction.fix_foreign, when it returns
fix_foreign(tx) ==
    IF ~is_foreign(tx.account) /\ ~is_foreign_payee(tx) THEN tx
    ELSE LET foreign_account == IF is_foreign(tx.account) THEN tx.account ELSE tx.payee.name
             foreign_currency_code == account_currency(foreign_account)
         IN  IF MEMO_RE_match(tx.memo) /\ tx.memo.code = foreign_currency_code
             THEN [tx EXCEPT !.foreign_amount = DecValue(memo_amount(tx.memo)),
                             !.foreign_currency = StrValue(foreign_currency_code),
                             !.memo = NoMemo,
                             !.split = FALSE]
             ELSE [tx EXCEPT !.foreign_amount =
                                 LazyValue(foreign_currency_code,
                                           IF tx.inflow # 0 THEN tx.inflow ELSE tx.outflow, tx.date),
                             !.foreign_currency = StrValue(foreign_currency_code)]

\* str.split at the backtick and str.strip() for the texts of the model; the
\* backtick of the register is written | in the texts of the model
split_backtick(text) == IF text = "Main | Rent" THEN <<"Main ", " Rent">> ELSE <<text>>

strip(text) ==
    IF text = " Rent" THEN "Rent"
    ELSE IF text = " Groceries" THEN "Groceries"
    ELSE IF text = " " THEN ""
    ELSE text

\* Importer._category and Importer._budget of a register row or a budget row
_category(tx) == tx.sub_category

_budget(tx) ==
    IF tx.master_category = "Hidden Categories"
    THEN strip(split_backtick(tx.sub_category)[2]) \o " (hidden)"
    ELSE strip(tx.sub_category)

\* self.data.budgets[budget].active
budget_active(budget) ==
    \E i \in 1..Len(data.budgets) : data.budgets[i].name = budget /\ data.budgets[i].active

\* lines 867-876: one of the two assertions fails
classify_fails_never(tx) == FALSE

classify_fails(tx) ==
    /\ _budget(tx) # ""
    /\ \/ _budget(tx) \notin {data.budgets[i].name : i \in 1..Len(data.budgets)}
       \/ /\ budget_active(_budget(tx))
          /\ _category(tx) # ""
          /\ _category(tx) \notin {data.categories[i] : i \in 1..Len(data.categories)}

\* lines 867-880: the local `category` after the checks
category_of_kept(tx) == _category(tx)

category_of(tx) == IF _budget(tx) # "" /\ budget_active(_budget(tx)) THEN _category(tx) ELSE ""

_split_key(tx) ==
    IF is_transfer(tx)
    THEN <<tx.account, transfer_account(tx), "None", tx.date, tx.running_balance>>
    ELSE <<tx.account, "None", is_deposit(tx), tx.date, tx.running_balance>>


-----------------------------------------------------------------------------
(* Importer._process_transactions: grouping and ordering of the rows *)

StartingBalance == [marker |-> FALSE, name |-> "Starting Balance"]

\* funcy.remove(lambda tx: (tx.inflow == 0 and tx.outflow == 0) or
\*              tx.payee == "Starting Balance", self.all_transactions)
transactions_kept_all(txs) == txs

transactions_kept(txs) ==
    SelectSeq(txs, LAMBDA tx : ~((tx.inflow = 0 /\ tx.outflow = 0) \/ tx.payee = StartingBalance))

\* funcy.split(lambda tx: "(Split " in tx.memo, transactions)
splits_of(txs) == SelectSeq(txs, LAMBDA tx : tx.split)

non_splits_of(txs) == SelectSeq(txs, LAMBDA tx : ~tx.split)

\* a grouping that puts every row into a group of its own
group_by_apart(txs) == [i \in 1..Len(txs) |-> <<txs[i]>>]

RECURSIVE group_by(_)
\* funcy.group_by(_split_key, splits).values(): the groups in the order in
\* which their keys first occur, each group in the order of the rows
group_by(txs) ==
    IF txs = <<>> THEN <<>>
    ELSE LET before == group_by(SubSeq(txs, 1, Len(txs) - 1))
             tx     == txs[Len(txs)]
             hit    == {i \in 1..Len(before) : _split_key(before[i][1]) = _split_key(tx)}
         IN  IF hit = {} THEN Append(before, <<tx>>)
             ELSE LET i == CHOOSE j \in hit : TRUE
                  IN  [before EXCEPT ![i] = Append(before[i], tx)]

\* chain(splits_grouped.values(), map(lambda x: [x], non_splits))
chained_non_splits_first(txs) ==
    [i \in 1..Len(non_splits_of(txs)) |-> <<non_splits_of(txs)[i]>>] \o group_by(splits_of(txs))

chained(txs) ==
    group_by(splits_of(txs)) \o [i \in 1..Len(non_splits_of(txs)) |-> <<non_splits_of(txs)[i]>>]

\* the grouping without the sort
sorted_unsorted(groups) == groups

RECURSIVE sorted(_)
\* sorted(all_tx_grouped, key=lambda tx_group: tx_group[0].date): a stable sort
sorted(groups) ==
    IF groups = <<>> THEN <<>>
    ELSE LET before == sorted(SubSeq(groups, 1, Len(groups) - 1))
             g      == groups[Len(groups)]
             k      == Cardinality({i \in 1..Len(before) : before[i][1].date <= g[1].date})
         IN  SubSeq(before, 1, k) \o <<g>> \o SubSeq(before, k + 1, Len(before))

-----------------------------------------------------------------------------
(* Importer._process_transactions: the main loop *)

\* (tuple(sorted([tx.account, tx.payee])), date, abs(tx.outflow - tx.inflow));
\* the sorted pair of two names is modelled by the set of the two names, which
\* is equal for two pairs exactly when the sorted tuples are
Abs(n) == IF n < 0 THEN -n ELSE n

transfer_seen_map_key(tx) ==
    <<{tx.account, tx.payee.name}, tx.date, Abs(tx.outflow - tx.inflow)>>

\* line 893: transfers_seen_map.get(transfer_seen_map_key, 0) % 2 == 1
seen_before(n) == n >= 1

seen_odd(n) == n % 2 = 1

\* self._amount(tx); `assert tx.foreign_amount` fails for None and for 0
_amount(tx) ==
    IF is_foreign(tx.account) THEN tx.foreign_amount
    ELSE DecValue(IF tx.outflow # 0 THEN tx.outflow ELSE tx.inflow)

_amount_fails(tx) ==
    /\ is_foreign(tx.account)
    /\ tx.foreign_amount.t \in {"none", "dec"}
    /\ tx.foreign_amount.v = 0

Transfer(tx) ==
    [type |-> "transfer", from_account |-> tx.account, to_account |-> tx.payee.name,
     account |-> "", payee |-> "", date |-> tx.date, amount |-> _amount(tx),
     budget |-> "", category |-> "",
     foreign_amount |-> tx.foreign_amount, foreign_currency_code |-> tx.foreign_currency,
     external_id |-> tx.running_balance]

Withdrawal(tx) ==
    [type |-> "withdrawal", from_account |-> "", to_account |-> "",
     account |-> tx.account, payee |-> tx.payee.name, date |-> tx.date,
     amount |-> _amount(tx), budget |-> _budget(tx), category |-> category_of(tx),
     foreign_amount |-> NoneValue, foreign_currency_code |-> NoneValue,
     external_id |-> tx.running_balance]

Deposit(tx) ==
    [type |-> "deposit", from_account |-> "", to_account |-> "",
     account |-> tx.account, payee |-> tx.payee.name, date |-> tx.date,
     amount |-> _amount(tx), budget |-> _budget(tx), category |-> category_of(tx),
     foreign_amount |-> NoneValue, foreign_currency_code |-> NoneValue,
     external_id |-> tx.running_balance]

RECURSIVE process_tx_group(_, _, _)
\* the body of `for tx in tx_group`, from row i on: the line items appended
\* to the group and the seen map afterwards; ok is FALSE when a row raised
process_tx_group(tx_group, seen, items) ==
    IF tx_group = <<>> THEN [ok |-> TRUE, seen |-> seen, items |-> items]
    ELSE IF fix_foreign_fails(fix_transfer(Head(tx_group)))
    THEN [ok |-> FALSE, seen |-> seen, items |-> items]
    ELSE LET tx   == fix_foreign(fix_transfer(Head(tx_group)))
             rest == Tail(tx_group)
             key  == transfer_seen_map_key(tx)
         IN  IF classify_fails(tx)
             THEN [ok |-> FALSE, seen |-> seen, items |-> items]
             ELSE IF is_transfer(tx) /\ seen_odd(Get(seen, key, 0))
             THEN process_tx_group(rest, Put(seen, key, seen[key] + 1), items)
             ELSE IF _amount_fails(tx)
             THEN [ok |-> FALSE, seen |-> seen, items |-> items]
             ELSE IF is_transfer(tx)
             THEN process_tx_group(rest, Put(seen, key, 1), Append(items, Transfer(tx)))
             ELSE IF is_expense(tx)
             THEN process_tx_group(rest, seen, Append(items, Withdrawal(tx)))
             ELSE process_tx_group(rest, seen, Append(items, Deposit(tx)))

\* line 949: `if transaction_group.transactions`
nonempty_always(items) == TRUE

nonempty(items) == items # <<>>

\* lines 834-856: the rows are filtered, grouped and sorted
process_transactions_begin ==
    /\ ppc = "read"
    /\ all_tx_grouped' = sorted(chained(transactions_kept(all_transactions)))
    /\ gidx' = 0
    /\ transfers_seen_map' = <<>>
    /\ transaction_groups' = <<>>
    /\ ppc' = "loop"
    /\ UNCHANGED <<all_transactions, pageVars, syncVars, forexVars>>

\* lines 858-950: one iteration of `for tx_group in all_tx_grouped`; an
\* assertion that fails ends _process_transactions and the run
process_transactions_group ==
    /\ ppc = "loop"
    /\ gidx < Len(all_tx_grouped)
    /\ LET r == process_tx_group(all_tx_grouped[gidx + 1], transfers_seen_map, <<>>)
       IN  IF r.ok
           THEN /\ transfers_seen_map' = r.seen
                /\ transaction_groups' =
                       IF nonempty(r.items)
                       THEN Append(transaction_groups, [title |-> "(empty description)", transactions |-> r.items])
                       ELSE transaction_groups
                /\ gidx' = gidx + 1
                /\ ppc' = ppc
           ELSE /\ ppc' = "failed"
                /\ UNCHANGED <<transfers_seen_map, transaction_groups, gidx>>
    /\ UNCHANGED <<all_transactions, all_tx_grouped, pageVars, syncVars, forexVars>>

\* lines 951-954: the loop is over
process_transactions_end ==
    /\ ppc = "loop"
    /\ gidx = Len(all_tx_grouped)
    /\ ppc' = "done"
    /\ UNCHANGED <<all_transactions, all_tx_grouped, gidx, transfers_seen_map, transaction_groups, pageVars, syncVars, forexVars>>

-----------------------------------------------------------------------------
(* JSON values, _firefly_compare and _firefly_needs_update                 *)
(*                                                                         *)
(* A value is [t, v]: t is its Python type on the importer's side (str,    *)
(* bool, int, dec for Decimal, date for arrow.Arrow) or its JSON type on   *)
(* the remote's side (none for null, str, bool, int for a number, numstr   *)
(* for a string that reads as a number, datestr for the string             *)
(* "YYYY-MM-DD" of a date).                                                *)

\* FireflySession._json_default: how a value of the importer is sent
_json_default(obj) ==
    IF obj.t = "dec" THEN IntValue(obj.v)
    ELSE IF obj.t = "date" THEN DateStrValue(obj.v)
    ELSE obj

\* the JSON object sent for a dict of the importer
JsonOf(obj) == [k \in DOMAIN obj |-> _json_default(obj[k])]

\* the number a Python bool, int or Decimal compares as
PyNum(x) == IF x.t = "bool" THEN (IF x.v THEN 1 ELSE 0) ELSE x.v

_firefly_compare(obj, firefly_obj) ==
    IF obj.t = "date"
    THEN firefly_obj.t = "datestr" /\ firefly_obj.v = obj.v
    ELSE IF obj.t = "dec" /\ firefly_obj.t # "none"
    THEN firefly_obj.t \in {"int", "numstr"} /\ firefly_obj.v = obj.v
    ELSE IF firefly_obj.t = "none"
    THEN obj.t \in {"bool", "int", "dec"} /\ PyNum(obj) = 0
    ELSE IF obj.t \in {"bool", "int"} /\ firefly_obj.t \in {"bool", "int"}
    THEN PyNum(obj) = PyNum(firefly_obj)
    ELSE obj.t = firefly_obj.t /\ obj.v = firefly_obj.v

_firefly_needs_update(obj, firefly_obj) ==
    \E k \in DOMAIN obj : ~_firefly_compare(obj[k], Get(firefly_obj.attributes, k, NoneValue))

-----------------------------------------------------------------------------
(* The entity classes of the synchronisation *)

\* the methods Importer.run calls after _load_cache, in order (lines 640-648)
RunOrder ==
    <<"currencies", "categories", "budgets", "budget_limits", "asset_accounts",
      "revenue_accounts", "expense_accounts", "transactions">>

EntityClasses ==
    {"categories", "budgets", "budget_limits", "asset_accounts", "revenue_accounts",
     "expense_accounts"}

\* the method that follows method cl in Importer.run
NextMethod(cl) ==
    LET i == CHOOSE j \in 1..Len(RunOrder) : RunOrder[j] = cl
    IN  IF i = Len(RunOrder) THEN "done" ELSE RunOrder[i + 1]

\* FireflyData(): nothing is cached
EmptyFireflyData ==
    [currencies |-> <<>>, categories |-> <<>>, budgets |-> <<>>, budget_limits |-> <<>>,
     asset_accounts |-> <<>>, revenue_accounts |-> <<>>, expense_accounts |-> <<>>,
     forex_conversion |-> <<>>]

\* the dict `data` a _create_ method builds for each local entity, with the
\* key under which the entity is cached
TargetsOf(cl) ==
    CASE cl = "categories" ->
           [i \in 1..Len(data.categories) |->
               [key |-> data.categories[i], data |-> [name |-> StrValue(data.categories[i])]]]
      [] cl = "budgets" ->
           [i \in 1..Len(data.budgets) |->
               [key |-> data.budgets[i].name,
                data |-> [name |-> StrValue(data.budgets[i].name), active |-> BoolValue(data.budgets[i].active)]]]
      [] cl = "budget_limits" ->
           [i \in 1..Len(data.budget_history) |->
               LET h == data.budget_history[i]
               IN  [key |-> <<h.name, h.start, h.end>>,
                    data |-> [start |-> DateValue(h.start), end |-> DateValue(h.end), amount |-> DecValue(h.amount)]]]
      [] cl = "asset_accounts" ->
           [i \in 1..Len(data.asset_accounts) |->
               LET a == data.asset_accounts[i]
               IN  [key |-> a.name,
                    data |-> IF a.opening_balance # 0
                             THEN [name |-> StrValue(a.name), active |-> BoolValue(TRUE),
                                   opening_balance |-> DecValue(a.opening_balance),
                                   opening_balance_date |-> DateValue(a.opening_date)]
                             ELSE [name |-> StrValue(a.name), active |-> BoolValue(TRUE)]]]
      [] cl = "revenue_accounts" ->
           [i \in 1..Len(data.revenue_accounts) |->
               [key |-> data.revenue_accounts[i],
                data |-> [name |-> StrValue(data.revenue_accounts[i]), active |-> BoolValue(TRUE)]]]
      [] cl = "expense_accounts" ->
           [i \in 1..Len(data.expense_accounts) |->
               [key |-> data.expense_accounts[i],
                data |-> [name |-> StrValue(data.expense_accounts[i]), active |-> BoolValue(TRUE)]]]

-----------------------------------------------------------------------------
(* The remote system *)

\* an entity of the remote: the number of entities it holds under the key
\* and the attributes it reports for it
Entity(attrs) == [n |-> 1, attributes |-> attrs]

\* attributes of an entity that the remote holds from before the import and
\* that differ from the target's
Stale(cl, d) ==
    CASE cl = "budgets" -> [d EXCEPT !.active = BoolValue(~d.active.v)]
      [] cl = "budget_limits" -> [start |-> DateStrValue(d.start.v), end |-> DateStrValue(d.end.v), amount |-> NoneValue]
      [] cl = "asset_accounts" -> [name |-> d.name, active |-> BoolValue(FALSE)]
      [] OTHER -> [d EXCEPT !.active = BoolValue(FALSE)]

\* what the remote holds of a class before the first run, by profile: nothing
\* ("fresh"), the first target with other attributes ("used"), or every
\* target as the importer would create it ("synced")
RemoteBefore(profile, cl) ==
    LET T == TargetsOf(cl)
    IN  IF profile = "fresh" \/ Len(T) = 0 THEN <<>>
        ELSE IF profile = "used"
        THEN [k \in {T[1].key} |->
                 Entity(IF cl = "categories" THEN JsonOf(T[1].data) ELSE Stale(cl, T[1].data))]
        ELSE [k \in {T[i].key : i \in 1..Len(T)} |->
                 LET i == CHOOSE j \in 1..Len(T) : T[j].key = k
                 IN  Entity(JsonOf(T[i].data))]

\* the currencies of the remote before the first run: code -> [default, enabled]
CurrenciesBefore(profile) ==
    [c \in {"EUR", "GBP", "USD"} |->
        [default |-> (c = (IF profile = "synced" THEN "USD" ELSE "EUR")),
         enabled |-> (profile = "used" \/ c \in {"EUR", "USD"})]]

Profiles == {"fresh", "used", "synced"}

RemoteOf(profile) ==
    [currencies |-> CurrenciesBefore(profile),
     categories |-> RemoteBefore(profile, "categories"),
     budgets |-> RemoteBefore(profile, "budgets"),
     budget_limits |-> RemoteBefore(profile, "budget_limits"),
     asset_accounts |-> RemoteBefore(profile, "asset_accounts"),
     revenue_accounts |-> RemoteBefore(profile, "revenue_accounts"),
     expense_accounts |-> RemoteBefore(profile, "expense_accounts"),
     transactions |-> <<>>]

\* the entry of response["data"] for key k
Listed(content, k) ==
    [shape |-> "dict", id |-> <<k, content[k].n>>, attributes |-> content[k].attributes]

\* response.json()["data"] of a successful create
CreatedEntity(content, t) ==
    [n |-> Get(content, t.key, [n |-> 0]).n + 1, attributes |-> JsonOf(t.data)]

\* the outcomes of a mutating call: success, a 4xx rejection that changes
\* nothing, a 500 after which the remote has applied the change all the same,
\* a 503 of a remote that is not available and changes nothing
Outcomes == {"ok", "rejected", "error500", "error503"}

Applied(out) == out \in {"ok", "error500"}

\* a remote call: its kind, the class it is about, the index of the target
\* (or group) it is for, its HTTP status, the "errors" object of a 422, and
\* dirty: the class of a successful mutating call made earlier and not yet
\* followed by a write of the cache ("" if there is none)
NoCall == [kind |-> "none", cl |-> "", target |-> 0, status |-> 0, errors |-> <<>>, dirty |-> ""]

Call(kind, cl, target, status) ==
    [kind |-> kind, cl |-> cl, target |-> target, status |-> status, errors |-> <<>>,
     dirty |-> unsaved]

StatusOf(out) ==
    IF out = "ok" THEN 200 ELSE IF out = "rejected" THEN 400 ELSE IF out = "error500" THEN 500 ELSE 503

Mutating(c) == c.kind \in {"create", "update", "setting", "transactions"}

-----------------------------------------------------------------------------
(* The cache file and the class steps of Importer.run *)

\* the check `if self.firefly_data.<class>:` of every _create_ method
Cached_never(cl) == FALSE

Cached(cl) == DOMAIN firefly_data[cl] # {}

\* the test `<name> in self.firefly_data.<class>` of the loop over targets
InCache_never(cl, key) == FALSE

InCache(cl, key) == key \in DOMAIN firefly_data[cl]

\* the _create_ methods of class cl end with self._update_cache()
writes_cache_but_categories(cl) == cl # "categories"

writes_cache(cl) == TRUE

\* dacite.from_dict(FireflyData, ..., strict=True) accepts only dicts as
\* values of revenue_accounts and expense_accounts (Dict[str, dict])
WellTyped(content) ==
    \A cl \in {"revenue_accounts", "expense_accounts"} :
        \A k \in DOMAIN content[cl] : content[cl][k].shape = "dict"

\* lines 986-989 and 968-972: forex_conversion is written as a dict from
\* "<code>::<YYYY-MM-DD>" to str(rate), and read back
forex_to_json(f) ==
    [j \in {<<k[1], "::", DateStrValue(k[2])>> : k \in DOMAIN f} |-> StrValue(f[<<j[1], j[3].v>>])]

forex_from_json(g) ==
    [k \in {<<j[1], j[3].v>> : j \in DOMAIN g} |-> g[<<k[1], "::", DateStrValue(k[2])>>].v]

\* a text is held as the list of the pieces text.split("::") cuts it into; a
\* piece is a text without "::": plain text s, or the text YYYY-MM-DD of date d
Piece(s) == [s |-> s, d |-> 0]

DatePiece(d) == [s |-> "", d |-> d]

\* name.split("::") for the names of budgets
split_colons(name) ==
    IF name = "Fun::Games" THEN <<Piece("Fun"), Piece("Games")>>
    ELSE IF name = "Loan::2020-01-01" THEN <<Piece("Loan"), DatePiece(101)>>
    ELSE <<Piece(name)>>

\* line 991: f"{budget}::{start.format('YYYY-MM-DD')}::{end.format('YYYY-MM-DD')}"
budget_limit_key_text(k) == split_colons(k[1]) \o <<DatePiece(k[2]), DatePiece(k[3])>>

\* lines 990-993: budget_limits is written as a dict from these texts
budget_limits_to_json(bl) ==
    [j \in {budget_limit_key_text(k) : k \in DOMAIN bl} |->
        bl[CHOOSE k \in DOMAIN bl : budget_limit_key_text(k) = j]]

\* lines 973-977: split[1] and split[2] exist and arrow.get reads them as
\* dates; otherwise an IndexError or a ParserError leaves _load_cache
budget_limits_loadable(g) ==
    \A j \in DOMAIN g : Len(j) >= 3 /\ j[2].d # 0 /\ j[3].d # 0

\* lines 973-977: the key read back is (split[0], arrow.get(split[1]),
\* arrow.get(split[2]))
budget_limits_from_json(g) ==
    [k \in {<<j[1].s, j[2].d, j[3].d>> : j \in DOMAIN g} |->
        g[CHOOSE j \in DOMAIN g : <<j[1].s, j[2].d, j[3].d>> = k]]

\* the file _update_cache leaves behind
CacheFileOf(fd) ==
    [state |-> "json", content |-> [fd EXCEPT !.forex_conversion = forex_to_json(@),
                                              !.budget_limits = budget_limits_to_json(@)]]

NoCacheFile == [state |-> "absent", content |-> EmptyFireflyData]

\* a file whose write was cut short: it does not parse as JSON
TornCacheFile == [state |-> "corrupt", content |-> EmptyFireflyData]

Merge(f, g) == [k \in DOMAIN f \cup DOMAIN g |-> IF k \in DOMAIN g THEN g[k] ELSE f[k]]

\* what the first loops of the _create_ methods put into the cache from the
\* fetched pages: the page entry, or int(id) for categories; budget limits
\* are fetched budget by budget of the cached budgets
ListedEntries_none(cl, content) == <<>>

ListedEntries(cl, content) ==
    [k \in {x \in DOMAIN content :
              /\ content[x].n > 0
              /\ cl = "budget_limits" => x[1] \in DOMAIN firefly_data.budgets} |->
        IF cl = "categories"
        THEN [shape |-> "int", id |-> <<k, content[k].n>>, attributes |-> <<>>]
        ELSE Listed(content, k)]

\* what a _create_ method caches of the response of a create
CachedOnCreate(cl, key, entity) ==
    [shape |-> IF cl = "categories" THEN "int"
               ELSE IF cl \in {"revenue_accounts", "expense_accounts"} THEN "str"
               ELSE "dict",
     id |-> <<key, entity.n>>,
     attributes |-> IF cl \in {"budgets", "budget_limits", "asset_accounts"}
                    THEN entity.attributes ELSE <<>>]

\* the calls _create_currencies issues for currency `code`, given the page
\* entries it fetched
CurrencyCallsOf(code, snap) ==
    (IF code = data.currency /\ ~snap[code].default THEN <<[op |-> "default", code |-> code]>> ELSE <<>>)
    \o (IF code \in data.currencies_to_keep
        THEN (IF ~snap[code].enabled THEN <<[op |-> "enable", code |-> code]>> ELSE <<>>)
        ELSE (IF snap[code].enabled THEN <<[op |-> "disable", code |-> code]>> ELSE <<>>))

CurrencyCalls(snap) ==
    CurrencyCallsOf("EUR", snap) \o CurrencyCallsOf("GBP", snap) \o CurrencyCallsOf("USD", snap)

\* the remote's currencies after a successful call c
CurrenciesAfter(cur, c) ==
    [x \in DOMAIN cur |->
        IF c.op = "default" THEN [cur[x] EXCEPT !.default = (x = c.code)]
        ELSE IF x = c.code THEN [cur[x] EXCEPT !.enabled = (c.op = "enable")]
        ELSE cur[x]]

Classes == EntityClasses \cup {"currencies"}

\* the number of iterations of the loop of the step of class cl
LoopLen(cl) == IF cl = "currencies" THEN Len(CurrencyCalls(listing)) ELSE Len(TargetsOf(cl))

\* the loop over the targets of class cl is running: in the step of the
\* class, or in _verify_running_balance for the asset accounts
InLoop(cl) ==
    \/ spc = cl /\ sub = "loop"
    \/ cl = "asset_accounts" /\ spc = "transactions" /\ sub = "verify_loop"

\* bookkeeping of a step that issues call c (NoCall: none)
Record(c) ==
    /\ call' = c
    /\ unsaved' = IF unsaved = "" /\ Mutating(c) /\ c.status = 200 THEN c.cl ELSE unsaved

uploadVars == <<gix, current_month, upload_log>>

_load_cache ==
    /\ spc = "load_cache"
    /\ IF cache_file.state = "json"
       THEN IF budget_limits_loadable(cache_file.content.budget_limits) /\ WellTyped(cache_file.content)
            THEN /\ firefly_data' = [cache_file.content EXCEPT
                                         !.forex_conversion = forex_from_json(@),
                                         !.budget_limits = budget_limits_from_json(@)]
                 /\ spc' = "currencies"
            ELSE firefly_data' = firefly_data /\ spc' = "failed"
       ELSE firefly_data' = firefly_data /\ spc' = "currencies"
    /\ sub' = "check"
    /\ call' = NoCall
    /\ UNCHANGED <<data, cache_file, remote, run, idx, listing, step_calls, unsaved, baseline,
                   uploadVars, procVars, pageVars, forexVars>>

\* `return` at the cache check (or at skip_budget_limits_import)
sync_skip_cached(cl) ==
    /\ spc = cl /\ sub = "check"
    /\ Cached(cl) \/ (cl = "budget_limits" /\ data.skip_budget_limits_import)
    /\ spc' = NextMethod(cl)
    /\ call' = NoCall
    /\ step_calls' = <<>>
    /\ UNCHANGED <<data, firefly_data, cache_file, remote, run, sub, idx, listing, unsaved,
                   baseline, uploadVars, procVars, pageVars, forexVars>>

\* get_all_pages and the loop that fills the cache from the pages
sync_fetch(cl) ==
    /\ spc = cl /\ sub = "check"
    /\ ~Cached(cl) /\ ~(cl = "budget_limits" /\ data.skip_budget_limits_import)
    /\ \E out \in {"ok", "rejected"} :
         LET none == cl = "budget_limits" /\ DOMAIN firefly_data.budgets = {}
             c == IF none THEN NoCall ELSE Call("list", cl, 0, StatusOf(out))
         IN  /\ Record(c)
             /\ step_calls' = IF none THEN <<>> ELSE <<c>>
             /\ IF out = "ok" \/ none
                THEN /\ listing' = IF cl = "currencies" THEN remote.currencies
                                   ELSE ListedEntries(cl, remote[cl])
                     /\ firefly_data' =
                          [firefly_data EXCEPT ![cl] =
                              IF cl = "currencies"
                              THEN [k \in DOMAIN remote.currencies |->
                                       [shape |-> "int", id |-> <<k, 1>>, attributes |-> <<>>]]
                              ELSE Merge(@, ListedEntries(cl, remote[cl]))]
                     /\ sub' = "loop" /\ idx' = 1 /\ spc' = spc
                ELSE /\ spc' = "failed"
                     /\ UNCHANGED <<listing, firefly_data, sub, idx>>
    /\ UNCHANGED <<data, cache_file, remote, run, baseline, uploadVars, procVars, pageVars, forexVars>>

\* an HTTP error of a mutating call is swallowed only in _create_budgets,
\* and only a 500
Swallowed_every_class(cl, out) == out \in {"ok", "error500"}

Swallowed(cl, out) == out = "ok" \/ (cl = "budgets" /\ out = "error500")

\* one iteration of a loop: call c was issued (NoCall: none), the remote and
\* the cache in memory become rem and fd; the loop goes on or an exception
\* leaves the run
LoopStep(c, rem, fd, goes_on) ==
    /\ Record(c)
    /\ step_calls' = IF c.kind = "none" THEN step_calls ELSE Append(step_calls, c)
    /\ remote' = rem
    /\ firefly_data' = fd
    /\ IF goes_on THEN idx' = idx + 1 /\ spc' = spc ELSE idx' = idx /\ spc' = "failed"
    /\ UNCHANGED <<data, cache_file, run, sub, listing, baseline, uploadVars, procVars, pageVars, forexVars>>

\* one iteration of `for code, data in currencies.items()`, one call at a time
create_currencies_call ==
    /\ spc = "currencies" /\ sub = "loop"
    /\ idx <= Len(CurrencyCalls(listing))
    /\ \E out \in Outcomes :
         LoopStep(Call("setting", "currencies", idx, StatusOf(out)),
                  IF Applied(out)
                  THEN [remote EXCEPT !.currencies = CurrenciesAfter(@, CurrencyCalls(listing)[idx])]
                  ELSE remote,
                  firefly_data,
                  out = "ok")

\* the entry of a created entity is put into the cache from the response of
\* the POST, which request() returns only for a response that is ok
CachesCreated_always(out) == TRUE

CachesCreated(out) == out = "ok"

\* one iteration of the loop over the local entities of class cl
sync_target(cl) ==
    /\ InLoop(cl)
    /\ cl # "currencies"
    /\ idx <= Len(TargetsOf(cl))
    /\ LET t == TargetsOf(cl)[idx]
       IN  IF cl = "budget_limits" /\ t.key[1] \notin DOMAIN firefly_data.budgets
           THEN \* KeyError at self.firefly_data.budgets[bg_hist.name]
                LoopStep(NoCall, remote, firefly_data, FALSE)
           ELSE IF InCache(cl, t.key)
           THEN IF cl # "categories" /\ _firefly_needs_update(t.data, firefly_data[cl][t.key])
                THEN \E out \in Outcomes :
                       LoopStep(Call("update", cl, idx, StatusOf(out)),
                                IF Applied(out)
                                THEN [remote EXCEPT ![cl][t.key].attributes = Merge(@, JsonOf(t.data))]
                                ELSE remote,
                                firefly_data,
                                Swallowed(cl, out))
                ELSE LoopStep(NoCall, remote, firefly_data, TRUE)
           ELSE \E out \in Outcomes :
                  LET entity == CreatedEntity(remote[cl], t)
                  IN  LoopStep(Call("create", cl, idx, StatusOf(out)),
                               IF Applied(out)
                               THEN [remote EXCEPT ![cl] = Put(@, t.key, entity)]
                               ELSE remote,
                               IF CachesCreated(out)
                               THEN [firefly_data EXCEPT ![cl] = Put(@, t.key, CachedOnCreate(cl, t.key, entity))]
                               ELSE firefly_data,
                               Swallowed(cl, out))

\* the end of a _create_ method: self._update_cache(); the process may die
\* while the file is being written
sync_save(cl) ==
    /\ spc = cl /\ sub = "loop"
    /\ idx > LoopLen(cl)
    /\ \E torn \in BOOLEAN :
         /\ torn => writes_cache(cl)
         /\ cache_file' = IF ~writes_cache(cl) THEN cache_file
                          ELSE IF torn THEN TornCacheFile
                          ELSE CacheFileOf(firefly_data)
         /\ unsaved' = IF writes_cache(cl) /\ ~torn THEN "" ELSE unsaved
         /\ spc' = IF torn THEN "dead" ELSE NextMethod(cl)
    /\ sub' = "check"
    /\ call' = NoCall
    /\ UNCHANGED <<data, firefly_data, remote, run, idx, listing, step_calls, baseline,
                   uploadVars, procVars, pageVars, forexVars>>

-----------------------------------------------------------------------------
(* Interruption and re-run *)

MaxRuns == 2

Running == spc \in {"load_cache"} \cup {RunOrder[i] : i \in 1..Len(RunOrder)}

\* the numbers of entities the remote holds, by class and key, and its
\* transactions
Entities ==
    [cl \in EntityClasses \cup {"transactions"} |->
        IF cl = "transactions" THEN remote.transactions
        ELSE [k \in DOMAIN remote[cl] |-> remote[cl][k].n]]

\* before the first run there is no previous run; forex is the set of keys
\* whose rate the cache file holds for the run that starts
NoBaseline == [previous |-> "", entities |-> <<>>, forex |-> {}]

\* the process dies: what it held in memory is lost
Crash ==
    /\ Running
    /\ spc' = "dead"
    /\ sub' = "check"
    /\ firefly_data' = EmptyFireflyData
    /\ idx' = 0 /\ listing' = <<>> /\ call' = NoCall /\ step_calls' = <<>> /\ unsaved' = ""
    /\ gix' = 0 /\ current_month' = 0 /\ upload_log' = <<>>
    /\ UNCHANGED <<data, cache_file, remote, run, baseline, procVars, pageVars, forexVars>>

\* the importer is started again with the same input: Importer.__init__ and
\* run up to _load_cache
Restart ==
    /\ spc \in {"done", "failed", "dead"}
    /\ run < MaxRuns
    /\ run' = run + 1
    /\ baseline' = [previous |-> spc, entities |-> Entities,
                     forex |-> IF cache_file.state = "json" /\ WellTyped(cache_file.content)
                               THEN DOMAIN forex_from_json(cache_file.content.forex_conversion)
                               ELSE {}]
    /\ spc' = "load_cache"
    /\ sub' = "check"
    /\ firefly_data' = EmptyFireflyData
    /\ idx' = 0 /\ listing' = <<>> /\ call' = NoCall /\ step_calls' = <<>> /\ unsaved' = ""
    /\ gix' = 0 /\ current_month' = 0 /\ upload_log' = <<>>
    /\ UNCHANGED <<data, cache_file, remote, procVars, pageVars, forexVars>>

-----------------------------------------------------------------------------
(* Importer._create_transactions and _verify_running_balance *)

\* the first loop of _process_transactions: the running balance of the last
\* row of each account in each month
running_balances ==
    LET rows == all_transactions
        months == {Month(rows[i].date) : i \in 1..Len(rows)}
        last(m, a) == CHOOSE i \in 1..Len(rows) :
                         /\ Month(rows[i].date) = m /\ rows[i].account = a
                         /\ \A j \in 1..Len(rows) :
                              Month(rows[j].date) = m /\ rows[j].account = a => j <= i
    IN  [m \in months |->
            [a \in {rows[i].account : i \in {j \in 1..Len(rows) : Month(rows[j].date) = m}} |->
                rows[last(m, a)].running_balance]]

\* the date filter at the head of the loop
Filtered(tx_group) ==
    \/ data.filter_max_date # 0 /\ tx_group.transactions[1].date > data.filter_max_date
    \/ data.filter_min_date # 0 /\ tx_group.transactions[1].date < data.filter_min_date

\* `if tx_month != current_month`
month_changed_never(tx_month, month) == FALSE

month_changed(tx_month, month) == tx_month # month

\* "error_if_duplicate_hash": True in the data of the POST
error_if_duplicate_hash_off == FALSE

error_if_duplicate_hash == TRUE

\* self.firefly_data.<class>[key]["id"] evaluates: the key is cached and
\* its entry is a dict
HasId(cl, key) == key \in DOMAIN firefly_data[cl] /\ firefly_data[cl][key].shape = "dict"

\* the source_id and destination_id of a line item can be looked up
LookupOk(tx) ==
    IF tx.type = "deposit"
    THEN /\ HasId("revenue_accounts", tx.payee) /\ HasId("asset_accounts", tx.account)
         /\ tx.budget # "" => HasId("budgets", tx.budget)
         /\ tx.category # "" => tx.category \in DOMAIN firefly_data.categories
    ELSE IF tx.type = "withdrawal"
    THEN /\ HasId("asset_accounts", tx.account) /\ HasId("expense_accounts", tx.payee)
         /\ tx.budget # "" => HasId("budgets", tx.budget)
         /\ tx.category # "" => tx.category \in DOMAIN firefly_data.categories
    ELSE HasId("asset_accounts", tx.from_account) /\ HasId("asset_accounts", tx.to_account)

\* messages of a validation error: one that DUPLICATE_TX_RE matches, one it
\* does not match for the missing full stop, and another error
DuplicateMessage == "Duplicate of transaction #7."

NearDuplicateMessage == "Duplicate of transaction #7"

OtherMessage == "The amount must be a number."

DUPLICATE_TX_RE_match(m) == m = DuplicateMessage

\* the keys of response.json()["errors"], split at the dots
ErrorField(field, tx_idx, child_field) ==
    [field |-> field, tx_idx |-> tx_idx, child_field |-> child_field]

ErrorFields ==
    {ErrorField("transactions", 0, "description"), ErrorField("transactions", 0, "amount"),
     ErrorField("transactions", 1, "description"), ErrorField("group_title", 0, "")}

ErrorLists ==
    {<<DuplicateMessage>>, <<NearDuplicateMessage>>, <<OtherMessage>>,
     <<DuplicateMessage, DuplicateMessage>>}

\* the "errors" objects of a 422: error lists for some of the fields
ErrorObjects ==
    UNION {[F -> ErrorLists] : F \in (SUBSET ErrorFields) \ {{}}}

\* `len(field_errors) == 1 and DUPLICATE_TX_RE.match(field_errors[0])`: the
\* child field of the key is not looked at
is_dup(k, field_errors) == Len(field_errors) = 1 /\ DUPLICATE_TX_RE_match(field_errors[1])

_firefly_create_transaction_errors(errors) ==
    LET tx_fields == {k \in DOMAIN errors : k.field = "transactions"}
        dup == {k \in tx_fields : is_dup(k, errors[k])}
    IN  [dup_errors |-> {k.tx_idx : k \in dup},
         other_tx_errors |-> {k.tx_idx : k \in tx_fields \ dup},
         other_errors |-> {k.field : k \in DOMAIN errors \ tx_fields},
         \* `assert tx_idx not in other_tx_errors`, `assert tx_idx not in dup_errors`
         assertion_error |-> {k.tx_idx : k \in dup} \cap {k.tx_idx : k \in tx_fields \ dup} # {}]

\* the remote holds a transaction group with the hash of tx_group
RemoteHas(tx_group) == Get(remote.transactions, tx_group, 0) > 0

\* the responses of the remote to POST /api/v1/transactions
Responses(tx_group) ==
    IF data.rich
    THEN {[status |-> s, errors |-> <<>>] :
            s \in IF error_if_duplicate_hash /\ RemoteHas(tx_group) THEN {500} ELSE {200, 500}}
         \cup {[status |-> 422, errors |-> e] : e \in ErrorObjects}
    ELSE IF error_if_duplicate_hash /\ RemoteHas(tx_group)
    THEN {[status |-> 422,
           errors |-> [k \in {ErrorField("transactions", 0, "description")} |-> <<DuplicateMessage>>]]}
    ELSE {[status |-> 200, errors |-> <<>>], [status |-> 500, errors |-> <<>>],
          [status |-> 422,
           errors |-> [k \in {ErrorField("transactions", 0, "amount")} |-> <<OtherMessage>>]]}

\* the except clause of the POST: the group is skipped and the loop goes on
Skipped(resp) ==
    LET r == _firefly_create_transaction_errors(resp.errors)
    IN  /\ resp.status = 422
        /\ ~r.assertion_error
        /\ r.other_tx_errors = {} /\ r.other_errors = {}

LogEntry(kind, date, month, accounts, ok) ==
    [kind |-> kind, date |-> date, month |-> month, accounts |-> accounts, ok |-> ok]

\* the step leaves _create_transactions with an exception
UploadAbort(c) ==
    /\ Record(c)
    /\ spc' = "failed"
    /\ UNCHANGED <<data, firefly_data, cache_file, remote, run, sub, idx, listing, step_calls,
                   baseline, gix, current_month, procVars, pageVars, forexVars>>

\* line 1225: current_month is the month of the first group
create_transactions_begin ==
    /\ spc = "transactions" /\ sub = "check"
    /\ step_calls' = <<>>
    /\ call' = NoCall
    /\ IF transaction_groups = <<>>
       THEN \* IndexError at self.data.transaction_groups[0]
            spc' = "failed" /\ UNCHANGED <<sub, gix, current_month>>
       ELSE /\ current_month' = Month(transaction_groups[1].transactions[1].date)
            /\ gix' = 1
            /\ sub' = "next"
            /\ spc' = spc
    /\ UNCHANGED <<data, firefly_data, cache_file, remote, run, idx, listing, unsaved, baseline,
                   upload_log, procVars, pageVars, forexVars>>

\* lines 1228-1233: a group outside the date filter is passed over
create_transactions_filtered ==
    /\ spc = "transactions" /\ sub = "next"
    /\ gix <= Len(transaction_groups)
    /\ Filtered(transaction_groups[gix])
    /\ gix' = gix + 1
    /\ call' = NoCall
    /\ UNCHANGED <<data, firefly_data, cache_file, remote, run, spc, sub, idx, listing,
                   step_calls, unsaved, baseline, current_month, upload_log, procVars, pageVars, forexVars>>

\* lines 1235-1237 and 1203, 1125-1128: the month changes, the asset accounts
\* are fetched again as of the end of current_month
create_transactions_verify_fetch ==
    /\ spc = "transactions" /\ sub = "next"
    /\ gix <= Len(transaction_groups)
    /\ ~Filtered(transaction_groups[gix])
    /\ month_changed(Month(transaction_groups[gix].transactions[1].date), current_month)
    /\ \E out \in {"ok", "rejected"} :
         LET c == Call("list", "asset_accounts", 0, StatusOf(out))
         IN  /\ Record(c)
             /\ IF out = "ok"
                THEN /\ listing' = ListedEntries("asset_accounts", remote.asset_accounts)
                     /\ firefly_data' =
                          [firefly_data EXCEPT !.asset_accounts =
                              Merge(@, ListedEntries("asset_accounts", remote.asset_accounts))]
                     /\ sub' = "verify_loop" /\ idx' = 1 /\ spc' = spc
                ELSE /\ spc' = "failed"
                     /\ UNCHANGED <<listing, firefly_data, sub, idx>>
    /\ UNCHANGED <<data, cache_file, remote, run, step_calls, baseline, uploadVars, procVars,
                   pageVars, forexVars>>

\* lines 1205-1218 and 1238-1239: the balances of current_month are compared
\* with what the remote reports; the remote's balance matches or not
_verify_running_balance ==
    /\ spc = "transactions" /\ sub = "verify_loop"
    /\ idx > Len(TargetsOf("asset_accounts"))
    /\ LET accounts == {a \in DOMAIN Get(running_balances, current_month, <<>>) :
                          ~is_foreign(a)}
       IN  \E ok \in BOOLEAN :
             /\ accounts = {} => ok
             /\ upload_log' = Append(upload_log, LogEntry("verify", 0, current_month, accounts, ok))
             /\ IF ok
                THEN /\ current_month' = Month(transaction_groups[gix].transactions[1].date)
                     /\ sub' = "build" /\ spc' = spc
                ELSE /\ spc' = "failed"
                     /\ UNCHANGED <<current_month, sub>>
    /\ call' = NoCall
    /\ UNCHANGED <<data, firefly_data, cache_file, remote, run, idx, listing, step_calls,
                   unsaved, baseline, gix, procVars, pageVars, forexVars>>

\* the lazy amounts json.dumps meets in the data of a group (lines 1247,
\* 1283-1286 and 540-543)
LazyValuesOf(tx_group) ==
    LET txs == tx_group.transactions
    IN  {txs[i].amount : i \in {j \in 1..Len(txs) : txs[j].amount.t = "lazy"}}
        \cup {txs[i].foreign_amount : i \in {j \in 1..Len(txs) : txs[j].foreign_amount.t = "lazy"}}

\* line 663: amount * conv_rate for the amount the partial application holds
forex_amount(lazy, conv_rate) == lazy.v * conv_rate

\* line 655: conv_rate is not None
rate_cached_never(key) == FALSE

rate_cached(key) == key \in DOMAIN firefly_data.forex_conversion

\* the rates the rate service may answer with
Rates == {2, 3}

MaxLookups == 3

\* one call of _forex_calculator by json.dumps for a lazy amount of the group
\* that is about to be posted: the rate is taken from forex_conversion, or
\* requested from the rate service, stored and written to the cache file;
\* the request may fail and the process may die while the file is written
_forex_calculator ==
    /\ spc = "transactions" /\ sub \in {"next", "build"}
    /\ gix <= Len(transaction_groups)
    /\ ~Filtered(transaction_groups[gix])
    /\ \/ sub = "build"
       \/ sub = "next" /\ ~month_changed(Month(transaction_groups[gix].transactions[1].date), current_month)
    /\ \A i \in 1..Len(transaction_groups[gix].transactions) :
           LookupOk(transaction_groups[gix].transactions[i])
    /\ Len(forex_log) < MaxLookups
    /\ \E lazy \in LazyValuesOf(transaction_groups[gix]) :
         LET key == <<lazy.code, lazy.date>>
         IN  IF rate_cached(key)
             THEN /\ forex_log' = Append(forex_log,
                        [key |-> key, run |-> run, requested |-> FALSE, answered |-> FALSE,
                         amount |-> lazy.v, conv_rate |-> firefly_data.forex_conversion[key],
                         result |-> forex_amount(lazy, firefly_data.forex_conversion[key])])
                  /\ UNCHANGED <<firefly_data, cache_file, spc, unsaved>>
             ELSE \E conv_rate \in Rates \cup {0}, torn \in BOOLEAN :
                    /\ conv_rate = 0 => ~torn
                    /\ forex_log' = Append(forex_log,
                          [key |-> key, run |-> run, requested |-> TRUE, answered |-> conv_rate # 0,
                           amount |-> lazy.v, conv_rate |-> conv_rate,
                           result |-> forex_amount(lazy, conv_rate)])
                    /\ IF conv_rate = 0
                       THEN \* the request raised, or its answer holds no rate
                            spc' = "failed" /\ UNCHANGED <<firefly_data, cache_file, unsaved>>
                       ELSE /\ firefly_data' = [firefly_data EXCEPT !.forex_conversion = Put(@, key, conv_rate)]
                            /\ cache_file' = IF torn THEN TornCacheFile ELSE CacheFileOf(firefly_data')
                            /\ unsaved' = IF torn THEN unsaved ELSE ""
                            /\ spc' = IF torn THEN "dead" ELSE spc
    /\ call' = NoCall
    /\ UNCHANGED <<data, remote, run, sub, idx, listing, step_calls, baseline, uploadVars,
                   procVars, pageVars>>

\* lines 1241-1311: the data of the group are built and posted
create_transactions_post ==
    /\ spc = "transactions" /\ sub \in {"next", "build"}
    /\ gix <= Len(transaction_groups)
    /\ ~Filtered(transaction_groups[gix])
    /\ \/ sub = "build"
       \/ sub = "next" /\ ~month_changed(Month(transaction_groups[gix].transactions[1].date), current_month)
    /\ \A lazy \in LazyValuesOf(transaction_groups[gix]) : rate_cached(<<lazy.code, lazy.date>>)
    /\ LET tx_group == transaction_groups[gix]
       IN  IF \E i \in 1..Len(tx_group.transactions) : ~LookupOk(tx_group.transactions[i])
           THEN \* KeyError or TypeError at ...[...]["id"]
                UploadAbort(NoCall) /\ UNCHANGED upload_log
           ELSE \E resp \in Responses(tx_group) :
                  LET c == [Call("transactions", "transactions", gix, resp.status)
                              EXCEPT !.errors = resp.errors]
                  IN  /\ Record(c)
                      /\ upload_log' = Append(upload_log,
                             LogEntry("post", tx_group.transactions[1].date, Month(tx_group.transactions[1].date), {},
                                      resp.status = 200))
                      /\ remote' = IF resp.status = 200
                                   THEN [remote EXCEPT !.transactions =
                                            Put(@, tx_group, Get(@, tx_group, 0) + 1)]
                                   ELSE remote
                      /\ IF resp.status = 200 \/ Skipped(resp)
                         THEN gix' = gix + 1 /\ sub' = "next" /\ spc' = spc
                         ELSE spc' = "failed" /\ UNCHANGED <<gix, sub>>
                      /\ UNCHANGED <<data, firefly_data, cache_file, run, idx, listing, step_calls,
                                     baseline, current_month, procVars, pageVars, forexVars>>

\* the loop is over: Importer.run returns
create_transactions_end ==
    /\ spc = "transactions" /\ sub = "next"
    /\ gix > Len(transaction_groups)
    /\ spc' = "done"
    /\ call' = NoCall
    /\ UNCHANGED <<data, firefly_data, cache_file, remote, run, sub, idx, listing, step_calls,
                   unsaved, baseline, uploadVars, procVars, pageVars, forexVars>>

-----------------------------------------------------------------------------
(* The register rows the processing is checked on *)

MaxRows == 4

Accounts == {"Checking", "Savings"}

RowDates == {131, 201}

Row(acc, d, pay, out, inf) ==
    [cls |-> "YNABTransaction", account |-> acc, date |-> d, payee |-> pay,
     master_category |-> "", sub_category |-> "", memo |-> NoMemo,
     split |-> FALSE, outflow |-> out, inflow |-> inf, running_balance |-> 0,
     foreign_amount |-> NoneValue, foreign_currency |-> NoneValue]

AccountPairs == {p \in Accounts \X Accounts : p[1] # p[2]}

\* a transfer leg logged from either side, and a withdrawal at a shop
RegisterRows ==
    {Row(p[1], d, [marker |-> TRUE, name |-> p[2]], 100, 0) : p \in AccountPairs, d \in RowDates}
    \cup {Row(p[1], d, [marker |-> TRUE, name |-> p[2]], 0, 100) : p \in AccountPairs, d \in RowDates}
    \cup {Row(a, d, [marker |-> FALSE, name |-> "Shop"], 100, 0) : a \in Accounts, d \in RowDates}

\* the processing has not been started
ProcIdle ==
    /\ all_transactions = <<>>
    /\ ppc = "idle"
    /\ all_tx_grouped = <<>>
    /\ gidx = 0
    /\ transfers_seen_map = <<>>
    /\ transaction_groups = <<>>

\* _forex_calculator has not been called
ForexIdle == forex_log = <<>>

\* no list is being fetched
PagesIdle ==
    /\ remote_list = <<>>
    /\ per_page = 1
    /\ gpc = "idle"
    /\ params_page = 0
    /\ response = [data |-> <<>>, current_page |-> 0, total_pages |-> 0]
    /\ all_response = <<>>
    /\ fetched = <<>>

-----------------------------------------------------------------------------
(* Inputs of the synchronisation: a register, the budget data and the      *)
(* configuration                                                           *)

Payee(name) == [marker |-> FALSE, name |-> name]

TransferTo(acc) == [marker |-> TRUE, name |-> acc]

RowWithBalance(acc, d, pay, out, inf, balance) ==
    [Row(acc, d, pay, out, inf) EXCEPT !.running_balance = balance]

\* a register of two accounts over January and February: a deposit, a
\* withdrawal and a transfer logged from both accounts
SyncRegister ==
    <<RowWithBalance("Checking", 101, StartingBalance, 0, 100, 100),
      RowWithBalance("Checking", 115, Payee("Employer"), 0, 50, 150),
      RowWithBalance("Checking", 120, Payee("Shop"), 30, 0, 120),
      RowWithBalance("Checking", 201, TransferTo("Savings"), 20, 0, 100),
      RowWithBalance("Savings", 201, TransferTo("Checking"), 0, 20, 20)>>

\* the same with a withdrawal in March
UploadRegister ==
    SyncRegister \o <<RowWithBalance("Savings", 301, Payee("Shop"), 5, 0, 15)>>

RECURSIVE process_all(_, _, _)
\* the whole loop `for tx_group in all_tx_grouped`
process_all(groups, seen, out) ==
    IF groups = <<>> THEN [seen |-> seen, groups |-> out]
    ELSE LET r == process_tx_group(Head(groups), seen, <<>>)
         IN  process_all(Tail(groups), r.seen,
                         IF nonempty(r.items)
                         THEN Append(out, [title |-> "(empty description)", transactions |-> r.items])
                         ELSE out)

\* the state _process_transactions leaves behind for the rows of a register
Processed(rows) ==
    LET r == process_all(sorted(chained(transactions_kept(rows))), <<>>, <<>>)
    IN  /\ all_transactions = rows
        /\ ppc = "done"
        /\ all_tx_grouped = sorted(chained(transactions_kept(rows)))
        /\ gidx = Len(all_tx_grouped)
        /\ transfers_seen_map = r.seen
        /\ transaction_groups = r.groups

\* self.data and self.config after _process_budgets and _process_accounts
ImportData(skip_limits, min_date, rich) ==
    [currency |-> "USD",
     currencies_to_keep |-> {"EUR", "USD"},
     skip_budget_limits_import |-> skip_limits,
     categories |-> <<"Groceries", "Rent">>,
     budgets |-> <<[name |-> "Groceries", active |-> TRUE], [name |-> "Rent", active |-> FALSE]>>,
     budget_history |-> <<[name |-> "Groceries", start |-> 101, end |-> 131, amount |-> 50]>>,
     asset_accounts |-> <<[name |-> "Checking", opening_balance |-> 100, opening_date |-> 101],
                          [name |-> "Savings", opening_balance |-> 0, opening_date |-> 101]>>,
     revenue_accounts |-> <<"Employer">>,
     expense_accounts |-> <<"Shop">>,
     accounts |-> <<>>,
     filter_min_date |-> min_date,
     filter_max_date |-> 0,
     rich |-> rich,
     dry_run |-> FALSE]

\* the cache a run leaves behind that found every target on the remote
SyncedCache(content) ==
    [cl \in DOMAIN EmptyFireflyData |->
        [k \in (IF cl = "forex_conversion" THEN {} ELSE DOMAIN content[cl]) |->
            IF cl \in {"currencies", "categories"}
            THEN [shape |-> "int", id |-> <<k, 1>>, attributes |-> <<>>]
            ELSE Listed(content[cl], k)]]

\* no run of the importer has been started
SyncIdle ==
    /\ data = ImportData(FALSE, 0, FALSE)
    /\ firefly_data = EmptyFireflyData
    /\ cache_file = NoCacheFile
    /\ remote = <<>>
    /\ run = 0
    /\ spc = "idle" /\ sub = "check"
    /\ idx = 0 /\ listing = <<>> /\ call = NoCall /\ step_calls = <<>> /\ unsaved = ""
    /\ baseline = NoBaseline
    /\ gix = 0 /\ current_month = 0 /\ upload_log = <<>>

\* Importer.run has processed the register and is about to load the cache
RunStarts ==
    /\ firefly_data = EmptyFireflyData
    /\ run = 1
    /\ spc = "load_cache" /\ sub = "check"
    /\ idx = 0 /\ listing = <<>> /\ call = NoCall /\ step_calls = <<>> /\ unsaved = ""
    /\ baseline = NoBaseline
    /\ gix = 0 /\ current_month = 0 /\ upload_log = <<>>

\* first runs against a remote of any profile, without a cache file
InitSync ==
    /\ data \in {ImportData(FALSE, 0, FALSE), ImportData(TRUE, 201, FALSE)}
    /\ Processed(SyncRegister)
    /\ PagesIdle
    /\ ForexIdle
    /\ remote \in {RemoteOf(p) : p \in Profiles}
    /\ cache_file = NoCacheFile
    /\ RunStarts

NextSync ==
    \/ _load_cache
    \/ \E cl \in Classes : sync_skip_cached(cl)
    \/ \E cl \in Classes : sync_fetch(cl)
    \/ create_currencies_call
    \/ \E cl \in EntityClasses : sync_target(cl)
    \/ \E cl \in Classes : sync_save(cl)
    \/ create_transactions_begin
    \/ create_transactions_filtered
    \/ create_transactions_verify_fetch
    \/ _verify_running_balance
    \/ create_transactions_post
    \/ create_transactions_end
    \/ Crash
    \/ Restart

SpecSync == InitSync /\ [][NextSync]_vars

\* a run that finds every class cached and goes on to the upload; the remote
\* answers a POST of a group with any status and any errors object
InitUpload ==
    /\ data \in {ImportData(FALSE, m, TRUE) : m \in {0, 201}}
    /\ Processed(UploadRegister)
    /\ PagesIdle
    /\ ForexIdle
    /\ remote = RemoteOf("synced")
    /\ cache_file = CacheFileOf(SyncedCache(remote))
    /\ RunStarts

NextUpload ==
    \/ _load_cache
    \/ \E cl \in Classes : sync_skip_cached(cl)
    \/ sync_target("asset_accounts")
    \/ create_transactions_begin
    \/ create_transactions_filtered
    \/ create_transactions_verify_fetch
    \/ _verify_running_balance
    \/ create_transactions_post
    \/ create_transactions_end

SpecUpload == InitUpload /\ [][NextUpload]_vars

\* the argument dry_run of Importer.run
dry_run_off == FALSE

dry_run == data.dry_run

\* lines 629-630 and 956-959: Importer.run begins with _verify_connection
\* (GET /api/v1/about/user) unless the run is dry; an HTTP error of the call
\* leaves the run
run_verify_connection ==
    /\ ppc = "start"
    /\ IF dry_run
       THEN /\ ppc' = "read"
            /\ UNCHANGED call
       ELSE \E out \in {"ok", "rejected"} :
               /\ call' = Call("get", "about", 0, StatusOf(out))
               /\ ppc' = IF out = "ok" THEN "read" ELSE "failed"
    /\ UNCHANGED <<all_transactions, all_tx_grouped, gidx, transfers_seen_map, transaction_groups,
                   data, firefly_data, cache_file, remote, run, spc, sub, idx, listing, step_calls,
                   unsaved, baseline, uploadVars, pageVars, forexVars>>

\* lines 636-639: Importer.run goes from _process_transactions to _load_cache
\* unless the run is dry
run_load_cache ==
    /\ ppc = "done"
    /\ spc = "idle"
    /\ ~dry_run
    /\ spc' = "load_cache"
    /\ run' = 1
    /\ UNCHANGED <<data, firefly_data, cache_file, remote, sub, idx, listing, call, step_calls,
                   unsaved, baseline, uploadVars, procVars, pageVars, forexVars>>

MaxPipeRows == 3

\* the rows logged from the Checking account: transfers to and from Savings
\* and withdrawals, in January and February
PipeRows == {r \in RegisterRows : r.account = "Checking"}

\* a run over any short register that finds every class cached
InitPipe ==
    /\ all_transactions \in SeqsUpTo(PipeRows, MaxPipeRows)
    /\ ppc = "read"
    /\ all_tx_grouped = <<>>
    /\ gidx = 0
    /\ transfers_seen_map = <<>>
    /\ transaction_groups = <<>>
    /\ PagesIdle
    /\ ForexIdle
    /\ data \in {ImportData(FALSE, m, FALSE) : m \in {0, 201}}
    /\ remote = RemoteOf("synced")
    /\ cache_file = CacheFileOf(SyncedCache(remote))
    /\ firefly_data = EmptyFireflyData
    /\ run = 0
    /\ spc = "idle" /\ sub = "check"
    /\ idx = 0 /\ listing = <<>> /\ call = NoCall /\ step_calls = <<>> /\ unsaved = ""
    /\ baseline = NoBaseline
    /\ gix = 0 /\ current_month = 0 /\ upload_log = <<>>

NextPipe ==
    \/ process_transactions_begin
    \/ process_transactions_group
    \/ process_transactions_end
    \/ run_load_cache
    \/ _load_cache
    \/ \E cl \in Classes : sync_skip_cached(cl)
    \/ sync_target("asset_accounts")
    \/ create_transactions_begin
    \/ create_transactions_filtered
    \/ create_transactions_verify_fetch
    \/ _verify_running_balance
    \/ create_transactions_post
    \/ create_transactions_end

SpecPipe == InitPipe /\ [][NextPipe]_vars

-----------------------------------------------------------------------------
(* The processing of any short register *)

InitProc ==
    /\ all_transactions \in SeqsUpTo(RegisterRows, MaxRows)
    /\ ppc = "read"
    /\ all_tx_grouped = <<>>
    /\ gidx = 0
    /\ transfers_seen_map = <<>>
    /\ transaction_groups = <<>>
    /\ PagesIdle
    /\ ForexIdle
    /\ SyncIdle

NextProc ==
    \/ process_transactions_begin
    \/ process_transactions_group
    \/ process_transactions_end

SpecProc == InitProc /\ [][NextProc]_vars

-----------------------------------------------------------------------------
(* Transfer pairs *)

\* the positions <<group, item>> of the emitted line items
ItemPositions ==
    {pos \in (1..Len(transaction_groups)) \X (1..MaxRows) :
        pos[2] <= Len(transaction_groups[pos[1]].transactions)}

ItemAt(pos) == transaction_groups[pos[1]].transactions[pos[2]]

\* the emitted Transfer line items from x to y on date d
TransfersEmitted(x, y, d) ==
    {pos \in ItemPositions :
        /\ ItemAt(pos).type = "transfer"
        /\ ItemAt(pos).from_account = x
        /\ ItemAt(pos).to_account = y
        /\ ItemAt(pos).date = d}

\* the rows that log, from x, money going out of x to y on date d
OutflowLegs(x, y, d) ==
    {i \in 1..Len(all_transactions) :
        LET tx == all_transactions[i]
        IN  tx.payee.marker /\ tx.account = x /\ tx.payee.name = y /\ tx.date = d /\ tx.outflow > 0}

\* the rows that log, from y, money coming into y from x on date d
InflowLegs(x, y, d) ==
    {i \in 1..Len(all_transactions) :
        LET tx == all_transactions[i]
        IN  tx.payee.marker /\ tx.account = y /\ tx.payee.name = x /\ tx.date = d /\ tx.inflow > 0}

\* every transfer of the register is logged from both of its accounts
RegisterIsPaired ==
    \A p \in AccountPairs, d \in RowDates :
        Cardinality(OutflowLegs(p[1], p[2], d)) = Cardinality(InflowLegs(p[1], p[2], d))

\* C1: in a register whose transfers are all logged as pairs (one row from
\* each account, same date, same amount), processing emits one Transfer line
\* item per pair, from the account with the outflow to the account with the
\* inflow, whatever the order of the rows.
C1_OneTransferPerPair ==
    (ppc = "done" /\ RegisterIsPaired) =>
        \A p \in AccountPairs, d \in RowDates :
            Cardinality(TransfersEmitted(p[1], p[2], d)) = Cardinality(OutflowLegs(p[1], p[2], d))

\* the dedup key of a pair is the key of no other row of the register
KeysOccurTwiceAtMost ==
    \A p \in AccountPairs, d \in RowDates :
        Cardinality({i \in 1..Len(all_transactions) :
                        /\ all_transactions[i].payee.marker
                        /\ {all_transactions[i].account, all_transactions[i].payee.name} = {p[1], p[2]}
                        /\ all_transactions[i].date = d}) <= 2

\* C1, for the registers in which no third row shares the dedup key of a pair
C1_OneTransferPerPairOfUniqueKey ==
    (ppc = "done" /\ RegisterIsPaired /\ KeysOccurTwiceAtMost) =>
        \A p \in AccountPairs, d \in RowDates :
            Cardinality(TransfersEmitted(p[1], p[2], d)) = Cardinality(OutflowLegs(p[1], p[2], d))

C1_UniqueKeyPairProcessed ==
    /\ ppc = "done"
    /\ RegisterIsPaired
    /\ KeysOccurTwiceAtMost
    /\ \E p \in AccountPairs, d \in RowDates :
          /\ OutflowLegs(p[1], p[2], d) # {}
          /\ \E i \in OutflowLegs(p[1], p[2], d), j \in InflowLegs(p[1], p[2], d) : j < i

-----------------------------------------------------------------------------
(* FireflySession.get_all_pages, against a remote that serves a list in pages *)

MaxList == 4

PageSizes == {1, 2}

Min(a, b) == IF a < b THEN a ELSE b

\* meta.pagination.total_pages of the remote's paginator: at least one page
total_pages_of(list, size) ==
    IF Len(list) = 0 THEN 1 ELSE (Len(list) + size - 1) \div size

\* the remote's answer to a fetch of page p (a fetch without a page parameter
\* is a fetch of page 1)
RemotePage(list, size, p) ==
    LET page == IF p = 0 THEN 1 ELSE p
    IN  [data         |-> SubSeq(list, (page - 1) * size + 1, Min(page * size, Len(list))),
         current_page |-> page,
         total_pages  |-> total_pages_of(list, size)]

\* a loop condition that gives up one page early
more_pages_one_short(r) == r.current_page + 1 < r.total_pages

\* lines 575-578: the condition of the while loop
more_pages(r) == r.current_page # r.total_pages

\* lines 571-573: the first fetch
get_all_pages_first ==
    /\ gpc = "start"
    /\ response' = RemotePage(remote_list, per_page, params_page)
    /\ all_response' = response'.data
    /\ fetched' = Append(fetched, response'.current_page)
    /\ gpc' = "loop"
    /\ UNCHANGED <<remote_list, per_page, params_page, procVars, syncVars, forexVars>>

\* lines 575-585: one iteration of the while loop
get_all_pages_next ==
    /\ gpc = "loop"
    /\ more_pages(response)
    /\ params_page' = response.current_page + 1
    /\ response' = RemotePage(remote_list, per_page, params_page')
    /\ all_response' = all_response \o response'.data
    /\ fetched' = Append(fetched, response'.current_page)
    /\ UNCHANGED <<remote_list, per_page, gpc, procVars, syncVars, forexVars>>

\* line 587: the loop is left and all_response is returned
get_all_pages_return ==
    /\ gpc = "loop"
    /\ ~more_pages(response)
    /\ gpc' = "done"
    /\ UNCHANGED <<remote_list, per_page, params_page, response, all_response, fetched, procVars, syncVars, forexVars>>

InitPages ==
    /\ remote_list \in SeqsUpTo({"x", "y"}, MaxList)
    /\ per_page \in PageSizes
    /\ gpc = "start"
    /\ params_page = 0
    /\ response = [data |-> <<>>, current_page |-> 0, total_pages |-> 0]
    /\ all_response = <<>>
    /\ fetched = <<>>
    /\ ProcIdle
    /\ SyncIdle
    /\ ForexIdle

NextPages ==
    \/ get_all_pages_first
    \/ get_all_pages_next
    \/ get_all_pages_return

\* the call is synchronous and nothing else runs: it keeps taking steps
SpecPages == InitPages /\ [][NextPages]_vars /\ WF_vars(NextPages)

\* C10: get_all_pages terminates, having fetched the pages 1, 2, ... up to the
\* page reported as last, each once and each asked for as the page after the
\* one before, and it returns the data of all pages in page order.
C10_AllPagesDrained ==
    <>[](/\ gpc = "done"
         /\ all_response = remote_list
         /\ fetched = [i \in 1..total_pages_of(remote_list, per_page) |-> i])

C10_SeveralPagesReturned ==
    /\ gpc = "done"
    /\ Len(fetched) >= 2
    /\ Len(remote_list) < Len(fetched) * per_page


-----------------------------------------------------------------------------
(* Re-runs and interrupted runs *)

\* C2: a run that follows a completed run with the same input and the cache
\* that run left behind creates nothing: the numbers of categories, budgets,
\* budget limits, accounts and transactions the remote holds under each key
\* stay what they were when the completed run ended.
C2_RerunCreatesNothing ==
    baseline.previous = "done" => Entities = baseline.entities

\* a second run has completed after a completed first run that uploaded groups
C2_SecondRunCompleted ==
    /\ baseline.previous = "done"
    /\ spc = "done"
    /\ DOMAIN remote.transactions # {}
    /\ \E i \in 1..Len(upload_log) : upload_log[i].kind = "post" /\ ~upload_log[i].ok

\* C3: whatever the points at which runs are interrupted, the remote never
\* holds two entities under one key of a class, nor one transaction group
\* twice: no entity is created twice.
C3_NoEntityCreatedTwice ==
    /\ \A cl \in EntityClasses : \A k \in DOMAIN remote[cl] : remote[cl][k].n <= 1
    /\ \A g \in DOMAIN remote.transactions : remote.transactions[g] <= 1

\* the previous run died after it had created categories on a remote that
\* had none and before it wrote them to the cache; the re-run has fetched
\* the categories and passed every target without a call
C3_InterruptedBatchResumed ==
    /\ baseline.previous = "dead"
    /\ DOMAIN baseline.entities.categories # {}
    /\ remote.budgets = <<>>
    /\ cache_file.state = "json" /\ cache_file.content.categories = <<>>
    /\ spc = "categories" /\ sub = "loop"
    /\ idx > Len(TargetsOf("categories"))
    /\ Len(step_calls) = 1

-----------------------------------------------------------------------------
(* Writes of the cache *)

C5_CachedClassSkipped ==
    [][\A cl \in Classes :
          (spc = cl /\ sub = "check" /\ DOMAIN firefly_data[cl] # {} /\ spc' # "dead")
          => /\ call'.kind = "none"
             /\ firefly_data' = firefly_data
             /\ cache_file' = cache_file
             /\ remote' = remote
             /\ spc' = NextMethod(cl)]_vars

\* the categories step of a re-run has been skipped for its cached entries
C5_CategoriesSkipped ==
    /\ run = 2
    /\ spc = "budgets" /\ sub = "check"
    /\ DOMAIN firefly_data.categories # {}
    /\ step_calls = <<>>

\* the calls of the running step for target i, by kind
CallsFor(i, kind) ==
    {j \in 1..Len(step_calls) : step_calls[j].target = i /\ step_calls[j].kind = kind}

\* the call a target is due, given the fetched list
Due(cl, t) ==
    IF t.key \notin DOMAIN listing THEN "create"
    ELSE IF cl # "categories" /\ _firefly_needs_update(t.data, listing[t.key]) THEN "update"
    ELSE "none"

\* C6: the step of a class that is not cached fetches the remote list first
\* (for budget limits: of the cached budgets); the list holds all the remote
\* has; every target the loop has passed got one create if its key is not in
\* the list, one update if it is and a tracked attribute differs, and no
\* call otherwise; no create is for a key of the list.
C6_OneCallPerTarget ==
    \A cl \in EntityClasses :
        (spc = cl /\ sub = "loop") =>
            /\ cl = "budget_limits" \/ step_calls # <<>>
            /\ step_calls # <<>> => step_calls[1].kind = "list"
            /\ (cl # "budget_limits" /\ idx = 1) => DOMAIN listing = DOMAIN remote[cl]
            /\ \A j \in 2..Len(step_calls) :
                 /\ step_calls[j].kind \in {"create", "update"}
                 /\ step_calls[j].kind = "create" =>
                      TargetsOf(cl)[step_calls[j].target].key \notin DOMAIN listing
            /\ \A i \in 1..(idx - 1) :
                 \A kind \in {"create", "update"} :
                    Cardinality(CallsFor(i, kind)) =
                        IF Due(cl, TargetsOf(cl)[i]) = kind THEN 1 ELSE 0

\* the budgets step has fetched the list, updated the listed budget that
\* differed and created the one that was missing
C6_BudgetUpdatedAndCreated ==
    /\ spc = "budgets" /\ sub = "loop"
    /\ idx > Len(TargetsOf("budgets"))
    /\ Len(step_calls) = 3
    /\ step_calls[2].kind = "update" /\ step_calls[2].status = 200
    /\ step_calls[3].kind = "create" /\ step_calls[3].status = 200

-----------------------------------------------------------------------------
(* The upload *)

\* every error of the rejection is one duplicate message for the description
\* of a line item
AllDuplicatesOfDescription(errors) ==
    \A k \in DOMAIN errors :
        /\ k.field = "transactions" /\ k.child_field = "description"
        /\ Len(errors[k]) = 1 /\ DUPLICATE_TX_RE_match(errors[k][1])

\* C7: a rejected POST of a group is passed over, and the upload goes on with
\* the next group, when it is a 422 whose every error is a single duplicate
\* message for a line item's description; with any other error the run
\* aborts.
C7_OnlyDescriptionDuplicatesSkipped ==
    (call.kind = "transactions" /\ call.status # 200) =>
        IF call.status = 422 /\ AllDuplicatesOfDescription(call.errors)
        THEN spc = "transactions" /\ sub = "next" /\ gix = call.target + 1
        ELSE spc = "failed" /\ gix = call.target

\* the posts of the upload, by position in the log
Posts == {i \in 1..Len(upload_log) : upload_log[i].kind = "post"}

\* the accounts _verify_running_balance is to compare for month m
AccountsToVerify(m) ==
    {a \in DOMAIN Get(running_balances, m, <<>>) : ~is_foreign(a)}

\* C8: between a post of a group of one month and the next post, of a group
\* of another month, the balances of the first month were verified for every
\* account that is not foreign and has a balance for the month, and matched;
\* a verification that does not match is the last thing the run does.
C8_MonthVerifiedBeforeNext ==
    /\ \A i, j \in Posts :
         (/\ i < j
          /\ \A p \in Posts : ~(i < p /\ p < j)
          /\ upload_log[i].month # upload_log[j].month)
         => \E v \in (i + 1)..(j - 1) :
               /\ upload_log[v].kind = "verify"
               /\ upload_log[v].month = upload_log[i].month
               /\ upload_log[v].accounts = AccountsToVerify(upload_log[i].month)
               /\ upload_log[v].ok
    /\ \A v \in 1..Len(upload_log) :
         (upload_log[v].kind = "verify" /\ ~upload_log[v].ok)
         => v = Len(upload_log) /\ spc = "failed"

\* February's group was posted after January's balances were verified for
\* an account
C8_BoundaryCrossed ==
    \E i, j \in Posts :
        /\ i + 2 = j
        /\ upload_log[i].month = 1 /\ upload_log[j].month = 2
        /\ upload_log[i + 1].kind = "verify" /\ upload_log[i + 1].accounts # {}

\* C9: the groups are emitted in non-decreasing order of date and posted in
\* that order, whatever the order of the rows of the register.
C9_PostedInDateOrder ==
    /\ \A i, j \in 1..Len(transaction_groups) :
         i < j => transaction_groups[i].transactions[1].date <= transaction_groups[j].transactions[1].date
    /\ \A i, j \in Posts : i < j => upload_log[i].date <= upload_log[j].date

\* the register has a row of February before a row of January, and groups
\* of both months were posted
C9_LaterRowFirstInRegister ==
    /\ Len(all_transactions) >= 2
    /\ all_transactions[1].date > all_transactions[2].date
    /\ \E i, j \in Posts : upload_log[i].date < upload_log[j].date

-----------------------------------------------------------------------------
(* Split rows *)

MaxSplitRows == 3

\* rows of Checking: the parts of splits posted on one date under one of two
\* running balances (two withdrawals, a deposit, a transfer to Savings), a
\* withdrawal and a transfer that are no parts of a split, a part of a split
\* of another date; and the row Savings logs for the transfer
SplitRows ==
    {[RowWithBalance("Checking", 131, pay,
                     IF pay.name = "Employer" THEN 0 ELSE IF pay.name = "Market" THEN 5 ELSE 10,
                     IF pay.name = "Employer" THEN 10 ELSE 0, bal) EXCEPT !.split = TRUE] :
        pay \in {Payee("Shop"), Payee("Market"), Payee("Employer"), TransferTo("Savings")},
        bal \in {50, 60}}
    \cup {RowWithBalance("Checking", 131, Payee("Shop"), 10, 0, 50),
          RowWithBalance("Checking", 131, TransferTo("Savings"), 10, 0, 50),
          [RowWithBalance("Checking", 201, Payee("Shop"), 10, 0, 50) EXCEPT !.split = TRUE],
          RowWithBalance("Savings", 131, TransferTo("Checking"), 0, 10, 10)}

InitSplit ==
    /\ all_transactions \in SeqsUpTo(SplitRows, MaxSplitRows)
    /\ ppc = "read"
    /\ all_tx_grouped = <<>>
    /\ gidx = 0
    /\ transfers_seen_map = <<>>
    /\ transaction_groups = <<>>
    /\ PagesIdle
    /\ ForexIdle
    /\ SyncIdle

SpecSplit == InitSplit /\ [][NextProc]_vars

\* the split key the rows are to be grouped by: the account, the other
\* account of a transfer or the direction of a deposit or withdrawal, the
\* date and the running balance
SplitKeyOfRow(tx) ==
    IF tx.payee.marker
    THEN <<tx.account, "transfer", tx.payee.name, tx.date, tx.running_balance>>
    ELSE <<tx.account, IF tx.inflow > 0 THEN "deposit" ELSE "withdrawal", "", tx.date, tx.running_balance>>

\* the rows that are processed: neither empty nor a starting balance
KeptRows ==
    {all_transactions[i] : i \in {j \in 1..Len(all_transactions) :
        ~(all_transactions[j].inflow = 0 /\ all_transactions[j].outflow = 0)
        /\ all_transactions[j].payee.name # "Starting Balance"}}

\* the row groups that hold row tx
GroupsOf(tx) == {g \in 1..Len(all_tx_grouped) : \E i \in 1..Len(all_tx_grouped[g]) : all_tx_grouped[g][i] = tx}

\* how often row tx occurs in a sequence of rows
Occurrences(tx, rows) == Cardinality({i \in 1..Len(rows) : rows[i] = tx})

RECURSIVE OccurrencesInGroups(_, _)
OccurrencesInGroups(tx, groups) ==
    IF groups = <<>> THEN 0
    ELSE Occurrences(tx, Head(groups)) + OccurrencesInGroups(tx, Tail(groups))

\* the rows are grouped: split rows of one key in one group, every other row
\* in a group of its own, every row in as many groups as the register holds it
RowsGrouped ==
    ppc \in {"loop", "done", "failed"} =>
        /\ \A tx \in KeptRows : OccurrencesInGroups(tx, all_tx_grouped) = Occurrences(tx, all_transactions)
        /\ \A tx \in KeptRows, other \in KeptRows :
              tx.split /\ other.split /\ SplitKeyOfRow(tx) = SplitKeyOfRow(other)
                  => GroupsOf(tx) = GroupsOf(other) /\ Cardinality(GroupsOf(tx)) = 1
        /\ \A tx \in KeptRows : ~tx.split => \A g \in GroupsOf(tx) : Len(all_tx_grouped[g]) = 1

\* a line item made from row tx
MadeFrom(item, tx) ==
    /\ item.external_id = tx.running_balance
    /\ item.date = tx.date
    /\ tx.account \in {item.account, item.from_account, item.to_account}

\* an iteration of the main loop emits at most one group, and only line items
\* of the rows of its own row group, one per row at most
OneGroupPerRowGroup ==
    gidx' = gidx + 1 =>
        \/ transaction_groups' = transaction_groups
        \/ /\ Len(transaction_groups') = Len(transaction_groups) + 1
           /\ SubSeq(transaction_groups', 1, Len(transaction_groups)) = transaction_groups
           /\ LET items == transaction_groups'[Len(transaction_groups')].transactions
                  rows  == all_tx_grouped[gidx']
              IN  /\ Len(items) <= Len(rows)
                  /\ \A i \in 1..Len(items) : \E j \in 1..Len(rows) : MadeFrom(items[i], rows[j])

\* C11: the split rows of one split key (account, other account of the
\* transfer or direction, date, running balance) are placed in one and the
\* same group, every row that is not a split row forms a group of its own, and
\* every step of the main loop turns one row group into at most one
\* TransactionGroup, so that no row contributes line items to two groups.
C11_SplitsGroupedByKey == [](RowsGrouped) /\ [][OneGroupPerRowGroup]_vars

\* a split of two rows has been emitted as one group of two line items while
\* a row of the same key that is no split row stays in a group of its own
C11_SplitOfTwoEmitted ==
    /\ ppc = "done"
    /\ \E g \in 1..Len(all_tx_grouped) :
          /\ Len(all_tx_grouped[g]) = 2
          /\ all_tx_grouped[g][1] # all_tx_grouped[g][2]
          /\ \E h \in 1..Len(all_tx_grouped) :
                /\ h # g
                /\ SplitKeyOfRow(all_tx_grouped[h][1]) = SplitKeyOfRow(all_tx_grouped[g][1])
    /\ \E t \in 1..Len(transaction_groups) : Len(transaction_groups[t].transactions) = 2

RECURSIVE SumOfItems(_)
\* the sum of the amounts of line items in the default currency
SumOfItems(items) ==
    IF items = <<>> THEN 0 ELSE Head(items).amount.v + SumOfItems(Tail(items))

RECURSIVE SumOfRows(_)
\* the sum of the signed amounts of rows: inflows count up, outflows down
SumOfRows(rows) ==
    IF rows = <<>> THEN 0 ELSE Head(rows).inflow - Head(rows).outflow + SumOfRows(Tail(rows))

\* the line items the step of the main loop emits
EmittedByStep ==
    IF Len(transaction_groups') > Len(transaction_groups)
    THEN transaction_groups'[Len(transaction_groups')].transactions
    ELSE <<>>

\* the step of the main loop handles a split
StepOverSplit == gidx' = gidx + 1 /\ all_tx_grouped[gidx'][1].split

\* C12: for every split group, the amounts of the line items emitted for it
\* add up to the sum of the signed amounts of its rows (taken without its
\* sign: the amount of a line item is positive).
C12_SplitSumPreserved ==
    [][StepOverSplit => SumOfItems(EmittedByStep) = Abs(SumOfRows(all_tx_grouped[gidx']))]_vars

\* C12, for the registers whose transfers are logged from both accounts and
\* share their dedup key (the two accounts, the date, the amount) with no
\* third row
C12_SplitSumPreservedOfUniqueKey ==
    [][StepOverSplit /\ RegisterIsPaired /\ KeysOccurTwiceAtMost =>
          SumOfItems(EmittedByStep) = Abs(SumOfRows(all_tx_grouped[gidx']))]_vars

-----------------------------------------------------------------------------
(* Empty groups *)

\* C13: every TransactionGroup of the processed output holds a line item: a
\* row group all of whose rows the transfer dedup dropped is not emitted, and
\* the upload posts emitted groups only.
C13_NoEmptyGroup ==
    /\ \A g \in 1..Len(transaction_groups) : Len(transaction_groups[g].transactions) >= 1
    /\ \A i \in Posts :
          \E g \in 1..Len(transaction_groups) :
              /\ Len(transaction_groups[g].transactions) >= 1
              /\ transaction_groups[g].transactions[1].date = upload_log[i].date

\* the run is over, a row group was dropped whole and another was posted
C13_DroppedGroupNotPosted ==
    /\ ppc = "done" /\ spc = "done"
    /\ Len(transaction_groups) < Len(all_tx_grouped)
    /\ Posts # {}

-----------------------------------------------------------------------------
(* Accounts in a foreign currency *)

MaxForeignRows == 2

\* Config.accounts: two accounts in EUR and one in GBP; Checking and Savings
\* are in the default currency
ForeignAccounts == [a \in {"Euro", "Euros", "Pound"} |-> IF a = "Pound" THEN "GBP" ELSE "EUR"]

\* the memos of the rows: none, an amount in EUR, thousands of EUR, an amount
\* in GBP, an amount with a comma
Memos ==
    {NoMemo, [code |-> "EUR", number |-> "45", k |-> FALSE], [code |-> "EUR", number |-> "7", k |-> TRUE],
     [code |-> "GBP", number |-> "45", k |-> FALSE], [code |-> "EUR", number |-> "1,200", k |-> FALSE]}

\* rows of one date: withdrawals from Euro under every memo, a deposit into
\* Euro, and transfers between accounts of which none, one or both are
\* foreign, without a memo or with an amount in EUR
ForeignRows ==
    {[Row("Euro", 131, Payee("Shop"), 10, 0) EXCEPT !.memo = m] : m \in Memos}
    \cup {Row("Euro", 131, Payee("Employer"), 0, 10)}
    \cup {[Row(p[1], 131, TransferTo(p[2]), 10, 0) EXCEPT !.memo = m] :
            p \in {<<"Checking", "Euro">>, <<"Euro", "Checking">>, <<"Euro", "Euros">>,
                   <<"Euro", "Pound">>, <<"Checking", "Savings">>},
            m \in {NoMemo, [code |-> "EUR", number |-> "45", k |-> FALSE]}}
    \cup {Row("Euro", 131, TransferTo("Checking"), 0, 10)}

InitForeign ==
    /\ all_transactions \in SeqsUpTo(ForeignRows, MaxForeignRows)
    /\ ppc = "read"
    /\ all_tx_grouped = <<>>
    /\ gidx = 0
    /\ transfers_seen_map = <<>>
    /\ transaction_groups = <<>>
    /\ PagesIdle
    /\ ForexIdle
    /\ data = [ImportData(FALSE, 0, FALSE) EXCEPT !.accounts = ForeignAccounts]
    /\ firefly_data = EmptyFireflyData
    /\ cache_file = NoCacheFile
    /\ remote = <<>>
    /\ run = 0
    /\ spc = "idle" /\ sub = "check"
    /\ idx = 0 /\ listing = <<>> /\ call = NoCall /\ step_calls = <<>> /\ unsaved = ""
    /\ baseline = NoBaseline
    /\ gix = 0 /\ current_month = 0 /\ upload_log = <<>>

SpecForeign == InitForeign /\ [][NextProc]_vars

\* the emitted Transfer line items
EmittedTransfers == {pos \in ItemPositions : ItemAt(pos).type = "transfer"}

\* the account is configured with a currency other than the default currency
ForeignAccount(a) == a \in DOMAIN ForeignAccounts /\ ForeignAccounts[a] # "USD"

\* C14: an emitted Transfer line item has its foreign amount and its foreign
\* currency code set if and only if exactly one of its two accounts is a
\* foreign-currency account, and the two fields are set or unset together.
C14_ForeignFieldsIffOneForeign ==
    \A pos \in EmittedTransfers :
        LET tx == ItemAt(pos)
        IN  /\ (tx.foreign_amount.t # "none") <=> (tx.foreign_currency_code.t # "none")
            /\ (tx.foreign_amount.t # "none") <=>
                   (ForeignAccount(tx.from_account) # ForeignAccount(tx.to_account))

\* C14, with the two fields set when at least one of the accounts is foreign
C14_ForeignFieldsIffSomeForeign ==
    \A pos \in EmittedTransfers :
        LET tx == ItemAt(pos)
        IN  /\ (tx.foreign_amount.t # "none") <=> (tx.foreign_currency_code.t # "none")
            /\ (tx.foreign_amount.t # "none") <=>
                   (ForeignAccount(tx.from_account) \/ ForeignAccount(tx.to_account))

\* the rows of the register as the main loop resolves them: the rows that
\* touch a foreign account and pass the check of a transfer between two of
\* them, after fix_transfer
RowsToResolve ==
    {r \in {fix_transfer(all_transactions[i]) : i \in 1..Len(all_transactions)} :
        /\ ForeignAccount(r.account) \/ (~r.payee.marker /\ ForeignAccount(r.payee.name))
        /\ ~(/\ ForeignAccount(r.account) /\ ~r.payee.marker /\ ForeignAccount(r.payee.name)
             /\ ForeignAccounts[r.account] # ForeignAccounts[r.payee.name])}

\* the currency of the foreign account the row touches
CurrencyOfRow(r) ==
    IF ForeignAccount(r.account) THEN ForeignAccounts[r.account] ELSE ForeignAccounts[r.payee.name]

\* the number a number text of a memo stands for
NumberOfText(text) == IF text = "45" THEN 45 ELSE IF text = "7" THEN 7 ELSE 1200

\* the amount of the row in the default currency
DefaultAmount(r) == IF r.inflow # 0 THEN r.inflow ELSE r.outflow

\* C15: a row that touches a foreign account and whose memo holds the
\* annotation "<code> <amount>" (no K after the amount) with the code of the
\* account's currency resolves to the annotated amount, whatever its outflow or
\* inflow; without an annotation, or with the code of another currency, it
\* resolves to the amount in the default currency multiplied by the exchange
\* rate for (currency, date of the row).
C15_AnnotatedAmountOrRate ==
    \A r \in RowsToResolve :
        LET resolved == fix_foreign(r).foreign_amount
        IN  IF r.memo.code = CurrencyOfRow(r)
            THEN r.memo.k \/ (resolved.t = "dec" /\ resolved.v = NumberOfText(r.memo.number))
            ELSE /\ resolved.t = "lazy"
                 /\ <<resolved.code, resolved.date>> = <<CurrencyOfRow(r), r.date>>
                 /\ \A conv_rate \in Rates : forex_amount(resolved, conv_rate) = DefaultAmount(r) * conv_rate

\* the register has been processed, and it holds a row resolved from its memo
\* to an amount other than its outflow and a row resolved by the rate
C15_BothWaysResolved ==
    /\ ppc = "done"
    /\ \E r \in RowsToResolve :
          /\ r.memo.code = CurrencyOfRow(r) /\ ~r.memo.k
          /\ NumberOfText(r.memo.number) # DefaultAmount(r)
    /\ \E r \in RowsToResolve : r.memo.code = "GBP" /\ CurrencyOfRow(r) = "EUR"
    /\ \E pos \in ItemPositions : ItemAt(pos).amount.t = "dec" /\ ItemAt(pos).amount.v = 45
    /\ \E pos \in ItemPositions : ItemAt(pos).amount.t = "lazy"

\* C16: when a K follows the amount of the annotation and the code is that of
\* the account's currency, the row resolves to the annotated number
\* multiplied by 1000.
C16_TrailingKMultiplies ==
    \A r \in RowsToResolve :
        (r.memo.code = CurrencyOfRow(r) /\ r.memo.k) =>
            LET resolved == fix_foreign(r).foreign_amount
            IN  resolved.t = "dec" /\ resolved.v = NumberOfText(r.memo.number) * 1000

\* a transfer between two foreign accounts of different currencies
BetweenTwoCurrencies(tx) ==
    /\ tx.payee.marker
    /\ ForeignAccount(tx.account) /\ ForeignAccount(tx.payee.name)
    /\ ForeignAccounts[tx.account] # ForeignAccounts[tx.payee.name]

\* a transfer between two foreign accounts of one currency
WithinOneCurrency(tx) ==
    /\ tx.payee.marker
    /\ ForeignAccount(tx.account) /\ ForeignAccount(tx.payee.name)
    /\ ForeignAccounts[tx.account] = ForeignAccounts[tx.payee.name]

\* what the main loop does with the row group it is at
StepOverTwoForeign ==
    (ppc = "loop" /\ gidx < Len(all_tx_grouped)) =>
        /\ BetweenTwoCurrencies(all_tx_grouped[gidx + 1][1]) =>
              ppc' = "failed" /\ transaction_groups' = transaction_groups
        /\ WithinOneCurrency(all_tx_grouped[gidx + 1][1]) => ppc' = "loop" /\ gidx' = gidx + 1

C18_ResolutionIdempotent ==
    \A r \in RowsToResolve :
        LET once  == fix_foreign(r)
            twice == fix_foreign(fix_foreign(r))
        IN  /\ twice.foreign_currency = once.foreign_currency
            /\ twice.foreign_amount.t = once.foreign_amount.t
            /\ twice.foreign_amount.v = once.foreign_amount.v

\* C18, for the rows resolved by the rate
C18_ResolutionByRateIdempotent ==
    \A r \in RowsToResolve :
        fix_foreign(r).foreign_amount.t = "lazy" =>
            /\ fix_foreign(fix_foreign(r)).foreign_currency = fix_foreign(r).foreign_currency
            /\ fix_foreign(fix_foreign(r)).foreign_amount = fix_foreign(r).foreign_amount

-----------------------------------------------------------------------------
(* Importer._process_budgets and a whole run of the importer *)

\* a row of the budget export; category is the text "master:sub", held as the
\* pair of its parts
YNABBudget(month, master_category, sub_category, budgeted) ==
    [cls |-> "YNABBudget", month |-> month, category |-> <<master_category, sub_category>>,
     master_category |-> master_category, sub_category |-> sub_category, budgeted |-> budgeted]

is_hidden(bg) == bg.master_category = "Hidden Categories"

\* self.category.startswith("Pre-YNAB Debt")
is_pre_ynab(bg) == bg.category[1] = "Pre-YNAB Debt"

\* the last day of the month of a date of the model
end_of_month(date) == Month(date) * 100 + (IF Month(date) = 2 THEN 28 ELSE 31)

RECURSIVE distinct(_)
\* the elements of a list without repetition: the order a set or a dict
\* built from the list is taken to have
distinct(list) ==
    IF list = <<>> THEN <<>>
    ELSE LET front == distinct(SubSeq(list, 1, Len(list) - 1))
             last == list[Len(list)]
         IN  IF \E i \in 1..Len(front) : front[i] = last THEN front ELSE Append(front, last)

\* self.data.categories, budgets and budget_history for the rows of the
\* budget export
_process_budgets(all_budgets) ==
    LET with_category == SelectSeq(all_budgets, LAMBDA bg : _category(bg) # "" /\ ~is_hidden(bg))
        with_budget == SelectSeq(all_budgets, LAMBDA bg : ~is_pre_ynab(bg) /\ _budget(bg) # "")
        budgeted == SelectSeq(with_budget, LAMBDA bg : bg.budgeted # 0)
        names == distinct([i \in 1..Len(with_budget) |-> _budget(with_budget[i])]
                          \o <<"Available next month", "Available this month">>)
        hidden(name) == \E i \in 1..Len(with_budget) :
                           _budget(with_budget[i]) = name /\ is_hidden(with_budget[i])
    IN  [categories |-> distinct([i \in 1..Len(with_category) |-> _category(with_category[i])])
                        \o <<"Available this month", "Available next month">>,
         budgets |-> [i \in 1..Len(names) |->
                         [name |-> names[i],
                          active |-> names[i] \in {"Available next month", "Available this month"}
                                     \/ ~hidden(names[i])]],
         budget_history |-> [i \in 1..Len(budgeted) |->
                                [name |-> _budget(budgeted[i]), start |-> budgeted[i].month,
                                 end |-> end_of_month(budgeted[i].month),
                                 amount |-> budgeted[i].budgeted]]]

\* a budget export: a category budgeted in two months, a hidden category and
\* a debt from before the budget
BudgetExport ==
    <<YNABBudget(101, "Main", "Groceries", 50),
      YNABBudget(101, "Hidden Categories", "Main | Rent", 0),
      YNABBudget(101, "Pre-YNAB Debt", "Loan", 10),
      YNABBudget(201, "Main", "Groceries", 50)>>

\* the configuration and the import data of the runs: an account in EUR
\* besides the two accounts in the default currency
RunData(min_date) ==
    LET processed == _process_budgets(BudgetExport)
    IN  [ImportData(FALSE, min_date, FALSE) EXCEPT
            !.categories = processed.categories,
            !.budgets = processed.budgets,
            !.budget_history = processed.budget_history,
            !.asset_accounts = @ \o <<[name |-> "Euro", opening_balance |-> 0, opening_date |-> 101]>>,
            !.accounts = [a \in {"Euro"} |-> "EUR"]]

Classified(tx, master_category, sub_category) ==
    [tx EXCEPT !.master_category = master_category, !.sub_category = sub_category]

MaxRunRows == 2

\* rows of the register: withdrawals under a budgeted category, the same
\* with a leading blank, a hidden category, a category the budget export
\* does not hold, a blank category and a debt from before the budget, a
\* deposit of income, and rows that touch the account in EUR
RunRows ==
    {Classified(Row("Checking", 131, Payee("Shop"), 10, 0), "Main", text) :
        text \in {"Groceries", " Groceries", "Travel", " "}}
    \cup {Classified(Row("Checking", 131, Payee("Shop"), 10, 0), "Hidden Categories", "Main | Rent"),
          Classified(Row("Checking", 131, Payee("Shop"), 10, 0), "Pre-YNAB Debt", "Loan"),
          Classified(Row("Checking", 201, Payee("Employer"), 0, 10), "Income", "Available this month"),
          Row("Euro", 131, Payee("Shop"), 10, 0),
          Row("Euro", 131, Payee("Shop"), 20, 0),
          Row("Euro", 201, Payee("Shop"), 10, 0),
          Row("Checking", 201, TransferTo("Euro"), 10, 0)}

\* Importer.run over any short register, against a remote that holds every
\* entity of the import data, with the cache file of an earlier run
InitRun ==
    /\ all_transactions \in SeqsUpTo(RunRows, MaxRunRows)
    /\ ppc = "start"
    /\ all_tx_grouped = <<>>
    /\ gidx = 0
    /\ transfers_seen_map = <<>>
    /\ transaction_groups = <<>>
    /\ PagesIdle
    /\ ForexIdle
    /\ data \in {[RunData(m) EXCEPT !.dry_run = d] : m \in {0, 201}, d \in BOOLEAN}
    /\ remote = RemoteOf("synced")
    /\ cache_file = CacheFileOf(SyncedCache(remote))
    /\ firefly_data = EmptyFireflyData
    /\ run = 0
    /\ spc = "idle" /\ sub = "check"
    /\ idx = 0 /\ listing = <<>> /\ call = NoCall /\ step_calls = <<>> /\ unsaved = ""
    /\ baseline = NoBaseline
    /\ gix = 0 /\ current_month = 0 /\ upload_log = <<>>

\* the steps of Importer.run, the rate lookups of the upload, and the
\* importer started again after a run has ended; the currencies of this
\* remote are those of the configuration, so that _create_currencies makes
\* no call after its fetch
NextRun ==
    \/ run_verify_connection
    \/ process_transactions_begin
    \/ process_transactions_group
    \/ process_transactions_end
    \/ run_load_cache
    \/ _load_cache
    \/ \E cl \in Classes : sync_skip_cached(cl)
    \/ \E cl \in Classes : sync_fetch(cl)
    \/ \E cl \in EntityClasses : sync_target(cl)
    \/ \E cl \in Classes : sync_save(cl)
    \/ create_transactions_begin
    \/ create_transactions_filtered
    \/ create_transactions_verify_fetch
    \/ _verify_running_balance
    \/ _forex_calculator
    \/ create_transactions_post
    \/ create_transactions_end
    \/ Restart

SpecRun == InitRun /\ [][NextRun]_vars

-----------------------------------------------------------------------------
(* Exchange rates *)

\* the rate the cache file holds for a key, 0 if it holds none
RateInFile(key) ==
    IF cache_file.state = "json" /\ key \in DOMAIN forex_from_json(cache_file.content.forex_conversion)
    THEN forex_from_json(cache_file.content.forex_conversion)[key]
    ELSE 0

\* C19: a lookup asks the rate service only if no earlier lookup of the same
\* run was answered for the same (currency code, date) and the cache file the
\* run loaded holds no rate for it; an answered lookup leaves the rate in
\* the cache file; a lookup that does not ask the service multiplies the
\* amount by the rate an earlier lookup of the same key stored.
C19_RateRequestedOnce ==
    \A j \in 1..Len(forex_log) :
        LET e == forex_log[j]
        IN  /\ e.requested =>
                /\ \A i \in 1..(j - 1) :
                      forex_log[i].run = e.run /\ forex_log[i].answered => forex_log[i].key # e.key
                /\ e.run = run => e.key \notin baseline.forex
            /\ e.answered /\ e.run = run /\ cache_file.state = "json" =>
                RateInFile(e.key) = e.conv_rate
            /\ ~e.requested =>
                /\ e.result = e.amount * e.conv_rate
                /\ \E i \in 1..(j - 1) :
                      /\ forex_log[i].answered /\ forex_log[i].key = e.key
                      /\ forex_log[i].conv_rate = e.conv_rate

\* a rate requested in the first run is used again in that run and in the
\* second run, which loaded it from the cache file
C19_StoredRateUsedInBothRuns ==
    \E i, j, k \in 1..Len(forex_log) :
        /\ i < j /\ j < k
        /\ forex_log[i].requested /\ forex_log[i].answered /\ forex_log[i].run = 1
        /\ ~forex_log[j].requested /\ forex_log[j].run = 1 /\ forex_log[j].key = forex_log[i].key
        /\ ~forex_log[k].requested /\ forex_log[k].run = 2 /\ forex_log[k].key = forex_log[i].key
        /\ forex_log[i].key \in baseline.forex

-----------------------------------------------------------------------------
(* Budgets and categories of the line items *)

KnownBudgets == {data.budgets[i].name : i \in 1..Len(data.budgets)}

ActiveBudgets == {data.budgets[i].name : i \in {j \in 1..Len(data.budgets) : data.budgets[j].active}}

KnownCategories == {data.categories[i] : i \in 1..Len(data.categories)}

\* the deposits and withdrawals emitted so far
EmittedClassified ==
    {item \in UNION {{transaction_groups[g].transactions[i] :
                         i \in 1..Len(transaction_groups[g].transactions)} :
                     g \in 1..Len(transaction_groups)} :
        item.type \in {"deposit", "withdrawal"}}

\* the budget of a row is none of the known budgets
UnknownBudget(tx) == _budget(tx) # "" /\ _budget(tx) \notin KnownBudgets

\* the category of a row is none of the known categories
UnknownCategory(tx) == _category(tx) # "" /\ _category(tx) \notin KnownCategories

\* no request of the upload has been made
NothingUploaded ==
    /\ spc = "idle" /\ run = 0
    /\ upload_log = <<>> /\ step_calls = <<>>
    /\ remote.transactions = <<>>

\* C20 as stated: the budget and the category of every emitted line item are
\* empty or known, and a register with a row whose budget or category is
\* not empty and unknown is not processed to the end, nothing being uploaded.
C20_UnknownReferenceAborts ==
    /\ \A item \in EmittedClassified :
          /\ item.budget # "" => item.budget \in KnownBudgets
          /\ item.category # "" => item.category \in KnownCategories
    /\ (\E tx \in KeptRows : UnknownBudget(tx) \/ UnknownCategory(tx)) =>
          ppc # "done" /\ NothingUploaded

\* C20, amended: the budget and the category of every emitted line item are
\* empty or known, and a register with a row whose budget is unknown, or
\* whose budget is active and whose category is unknown, is not processed to
\* the end, nothing being uploaded; the category of a row without budget or
\* under an inactive budget is not looked at and the line item has none.
C20_KnownOrAborted ==
    /\ \A item \in EmittedClassified :
          /\ item.budget # "" => item.budget \in KnownBudgets
          /\ item.category # "" => item.category \in KnownCategories
          /\ item.budget \notin ActiveBudgets => item.category = ""
    /\ (\E tx \in KeptRows :
           UnknownBudget(tx) \/ (_budget(tx) \in ActiveBudgets /\ UnknownCategory(tx))) =>
          ppc # "done" /\ NothingUploaded

\* a line item with budget and category was emitted and the processing then
\* failed at a row of an active budget with an unknown category
C20_AbortedAfterClassifiedItem ==
    /\ ppc = "failed"
    /\ \E item \in EmittedClassified : item.budget # "" /\ item.category # ""
    /\ \E tx \in KeptRows : _budget(tx) \in ActiveBudgets /\ UnknownCategory(tx)
    /\ NothingUploaded

-----------------------------------------------------------------------------
(* Hidden budgets *)

\* the groups posted so far with success
PostedGroups == {g \in DOMAIN remote.transactions : remote.transactions[g] > 0}

\* C21: the budget of every row of the budget export under "Hidden
\* Categories" is recorded as inactive, and every emitted or posted deposit or
\* withdrawal under an inactive budget has no category.
C21_HiddenBudgetClearsCategory ==
    /\ \A i \in 1..Len(BudgetExport) :
          BudgetExport[i].master_category = "Hidden Categories" =>
              \E b \in 1..Len(data.budgets) :
                  /\ data.budgets[b].name = _budget(BudgetExport[i])
                  /\ ~data.budgets[b].active
    /\ \A item \in EmittedClassified :
          (\E b \in 1..Len(data.budgets) :
               data.budgets[b].name = item.budget /\ ~data.budgets[b].active)
          => item.category = ""
    /\ \A g \in PostedGroups : \A i \in 1..Len(g.transactions) :
          (\E b \in 1..Len(data.budgets) :
               data.budgets[b].name = g.transactions[i].budget /\ ~data.budgets[b].active)
          => g.transactions[i].category = ""

\* a withdrawal of a row under the hidden category was posted
C21_HiddenWithdrawalPosted ==
    /\ \E tx \in KeptRows : tx.master_category = "Hidden Categories" /\ tx.sub_category # ""
    /\ \E g \in PostedGroups : \E i \in 1..Len(g.transactions) :
          g.transactions[i].budget = "Rent (hidden)" /\ g.transactions[i].category = ""

-----------------------------------------------------------------------------
(* More than two rows under one dedup key *)

\* the transfer rows of the register that share the dedup key of row i
RowsOfKey(i) ==
    {j \in 1..Len(all_transactions) :
        /\ all_transactions[j].payee.marker
        /\ transfer_seen_map_key(fix_transfer(all_transactions[j]))
             = transfer_seen_map_key(fix_transfer(all_transactions[i]))}

\* C23: a register in which more than two transfer rows share one dedup key
\* is not processed to the end (the processing knows no warning: the only
\* way it has to flag the rows is to fail).
C23_ThirdOccurrenceFlagged ==
    (\E i \in 1..Len(all_transactions) :
        all_transactions[i].payee.marker /\ Cardinality(RowsOfKey(i)) > 2)
    => ppc # "done"

-----------------------------------------------------------------------------
(* Importer._process_accounts and the registers with starting balances *)

\* lines 776-832 for the rows of a register: the asset accounts with their
\* opening balance and date, and the payees of the deposits and of the
\* withdrawals; ok is FALSE when the assertion of line 779 fails or an
\* account has no row of the payee "Starting Balance" (KeyError, line 788).
\* The accounts have the default role.
process_accounts_of(txs) ==
    LET account_names == distinct([i \in 1..Len(txs) |-> txs[i].account])
        starts(acc) == {i \in 1..Len(txs) : txs[i].account = acc /\ txs[i].payee = StartingBalance}
        \* a dict comprehension: the last row of an account is the one kept
        start(acc) == txs[CHOOSE i \in starts(acc) : \A j \in starts(acc) : j <= i]
        deposits == SelectSeq(txs, LAMBDA tx : is_deposit(tx) /\ ~is_transfer(tx))
        expenses == SelectSeq(txs, LAMBDA tx : is_expense(tx) /\ ~is_transfer(tx))
    IN  IF \/ \E acc \in DOMAIN data.accounts : \A i \in 1..Len(txs) : txs[i].account # acc
           \/ \E i \in 1..Len(txs) : starts(txs[i].account) = {}
        THEN [ok |-> FALSE, asset_accounts |-> <<>>, revenue_accounts |-> <<>>, expense_accounts |-> <<>>]
        ELSE [ok |-> TRUE,
              asset_accounts |->
                  [i \in 1..Len(account_names) |->
                      [name |-> account_names[i],
                       opening_balance |-> start(account_names[i]).inflow - start(account_names[i]).outflow,
                       opening_date |-> start(account_names[i]).date]],
              revenue_accounts |-> distinct([i \in 1..Len(deposits) |-> deposits[i].payee.name]),
              expense_accounts |-> distinct([i \in 1..Len(expenses) |-> expenses[i].payee.name])]

\* Importer._process_accounts, the step of Importer.run before
\* _process_transactions
_process_accounts ==
    /\ ppc = "accounts"
    /\ LET r == process_accounts_of(all_transactions)
       IN  IF r.ok
           THEN /\ data' = [data EXCEPT !.asset_accounts = r.asset_accounts,
                                       !.revenue_accounts = r.revenue_accounts,
                                       !.expense_accounts = r.expense_accounts]
                /\ ppc' = "read"
           ELSE /\ ppc' = "failed"
                /\ data' = data
    /\ UNCHANGED <<all_transactions, all_tx_grouped, gidx, transfers_seen_map, transaction_groups,
                   firefly_data, cache_file, remote, run, spc, sub, idx, listing, call, step_calls,
                   unsaved, baseline, uploadVars, pageVars, forexVars>>

MaxLedgerRows == 3

\* the starting balances of the two accounts (money in Checking, a debt on
\* Savings), a row without amount, withdrawals on three dates of two months
\* and a deposit
LedgerRows ==
    {RowWithBalance("Checking", 115, StartingBalance, 0, 100, 100),
     RowWithBalance("Savings", 115, StartingBalance, 40, 0, -40),
     RowWithBalance("Checking", 120, Payee("Shop"), 0, 0, 100),
     RowWithBalance("Checking", 115, Payee("Shop"), 20, 0, 80),
     RowWithBalance("Checking", 120, Payee("Shop"), 10, 0, 70),
     RowWithBalance("Checking", 201, Payee("Shop"), 10, 0, 60),
     RowWithBalance("Savings", 120, Payee("Employer"), 0, 10, -30)}

\* Importer.run has read a register, in any order of its rows
InitLedger ==
    /\ all_transactions \in SeqsUpTo(LedgerRows, MaxLedgerRows)
    /\ ppc = "accounts"
    /\ all_tx_grouped = <<>>
    /\ gidx = 0
    /\ transfers_seen_map = <<>>
    /\ transaction_groups = <<>>
    /\ PagesIdle
    /\ ForexIdle
    /\ data = [ImportData(FALSE, 0, FALSE) EXCEPT !.asset_accounts = <<>>,
                                                  !.revenue_accounts = <<>>,
                                                  !.expense_accounts = <<>>]
    /\ firefly_data = EmptyFireflyData
    /\ cache_file = NoCacheFile
    /\ remote = <<>>
    /\ run = 0
    /\ spc = "idle" /\ sub = "check"
    /\ idx = 0 /\ listing = <<>> /\ call = NoCall /\ step_calls = <<>> /\ unsaved = ""
    /\ baseline = NoBaseline
    /\ gix = 0 /\ current_month = 0 /\ upload_log = <<>>

NextLedger ==
    \/ _process_accounts
    \/ process_transactions_begin
    \/ process_transactions_group
    \/ process_transactions_end

SpecLedger == InitLedger /\ [][NextLedger]_vars

-----------------------------------------------------------------------------
(* Balances at the end of a month *)

\* the rows of an account in a month
RowsIn(m, a) ==
    {i \in 1..Len(all_transactions) :
        Month(all_transactions[i].date) = m /\ all_transactions[i].account = a}

\* a balance is stored for month m and account a
Stored(m, a) == m \in DOMAIN running_balances /\ a \in DOMAIN running_balances[m]

\* for every account and month with a row, the balance stored is that of a
\* row of the latest date of the account in the month; nothing is stored
\* for an account and a month without row
BalancesOfLastRecords ==
    \A m \in 1..2, a \in Accounts :
        IF RowsIn(m, a) = {} THEN ~Stored(m, a)
        ELSE /\ Stored(m, a)
             /\ \E i \in RowsIn(m, a) :
                   /\ \A j \in RowsIn(m, a) : all_transactions[j].date <= all_transactions[i].date
                   /\ running_balances[m][a] = all_transactions[i].running_balance

\* C22: once the balances are reconstructed, one balance is stored for every
\* account and month with a row, that of the chronologically last row of the
\* account in the month, and none for an account without row in the month.
C22_BalanceOfChronologicallyLast ==
    ppc \in {"loop", "done"} => BalancesOfLastRecords

\* the rows of every account stand in the order of their dates
RegisterInDateOrder ==
    \A i, j \in 1..Len(all_transactions) :
        i < j /\ all_transactions[i].account = all_transactions[j].account
        => all_transactions[i].date <= all_transactions[j].date

\* C22, for the registers that list the rows of every account in date order
C22_BalanceOfLastInDateOrder ==
    ppc \in {"loop", "done"} /\ RegisterInDateOrder => BalancesOfLastRecords

-----------------------------------------------------------------------------
(* Starting balances and rows without amount *)

\* the line items emitted so far
EmittedItems ==
    UNION {{transaction_groups[g].transactions[i] : i \in 1..Len(transaction_groups[g].transactions)} :
           g \in 1..Len(transaction_groups)}

\* the rows of the payee "Starting Balance" of an account
StartingRows(a) ==
    {i \in 1..Len(all_transactions) :
        all_transactions[i].account = a /\ all_transactions[i].payee.name = "Starting Balance"}

-----------------------------------------------------------------------------
(* A transfer logged inside a split and outside of one *)

\* row i is a leg of a transfer inside a split, row j the leg the other
\* account logs for it outside of any split, and no other row has their
\* dedup key
SplitLegAndCounterpart(i, j) ==
    /\ all_transactions[i].payee.marker /\ all_transactions[i].split
    /\ all_transactions[j].payee.marker /\ ~all_transactions[j].split
    /\ all_transactions[j].account = all_transactions[i].payee.name
    /\ all_transactions[j].payee.name = all_transactions[i].account
    /\ RowsOfKey(i) = {i, j}

\* C30: of a transfer with one leg inside a split and the counterpart leg
\* outside of any split on the same date, the Transfer line item emitted is
\* the one of the leg inside the split (it carries the running balance of
\* that row), wherever the two rows stand in the register, and no line item
\* is emitted for the counterpart.
C30_SplitLegSurvives ==
    ppc = "done" =>
        \A i, j \in 1..Len(all_transactions) :
            SplitLegAndCounterpart(i, j) =>
                /\ \E item \in EmittedItems :
                      item.type = "transfer" /\ MadeFrom(item, all_transactions[i])
                /\ \A item \in EmittedItems :
                      item.type = "transfer" => ~MadeFrom(item, all_transactions[j])

\* the counterpart stands before the leg of the split in the register, the
\* split has another part, and the Transfer of the leg was emitted
C30_CounterpartFirstInRegister ==
    /\ ppc = "done"
    /\ \E i, j \in 1..Len(all_transactions) :
          /\ j < i
          /\ SplitLegAndCounterpart(i, j)
          /\ \E k \in 1..Len(all_transactions) :
                all_transactions[k].split /\ ~all_transactions[k].payee.marker
          /\ \E item \in EmittedItems :
                item.type = "transfer" /\ MadeFrom(item, all_transactions[i])

-----------------------------------------------------------------------------
(* A dry run *)

\* C24: a dry run issues no call from its start to its end: no connection
\* check, no list, create, update or upload and no request of an exchange
\* rate; the run never leaves _process_transactions for _load_cache, and the
\* remote, the cache in memory and the cache file stay as they were.
C24_DryRunIssuesNoCall ==
    data.dry_run =>
        /\ call = NoCall /\ step_calls = <<>>
        /\ upload_log = <<>>
        /\ forex_log = <<>>
        /\ fetched = <<>> /\ gpc = "idle"
        /\ spc = "idle" /\ run = 0
        /\ remote = RemoteOf("synced")
        /\ firefly_data = EmptyFireflyData
        /\ cache_file = CacheFileOf(SyncedCache(remote))

\* a dry run has processed a register with a row of the account in EUR: the
\* line item holds an amount that is yet to be converted
C24_DryRunProcessedForeignRow ==
    /\ data.dry_run
    /\ ppc = "done"
    /\ \E item \in EmittedItems : item.amount.t = "lazy"
    /\ \E item \in EmittedItems : item.type = "transfer"

-----------------------------------------------------------------------------
(* Responses 5xx to mutating calls *)

\* the last step issued a mutating call that the remote answered with 5xx
ServerErrorOfMutatingCall == Mutating(call) /\ call.status >= 500

\* C25 as stated: a 5xx answer to a create or update of a budget is swallowed
\* and the budget step goes on; a 5xx answer to any other mutating call ends
\* the run.
C25_ServerErrorOfBudgetsSwallowed ==
    ServerErrorOfMutatingCall => (call.cl = "budgets" <=> spc # "failed")

\* C25: a 500 answer to a create or update of a budget is swallowed and the
\* budget step goes on with the next budget; every other 5xx answer to a
\* mutating call ends the run: a 5xx other than 500 to a call for a budget,
\* and any 5xx to a call for a category, a budget limit, an account, a
\* currency setting or a transaction group.
C25_Only500OfBudgetsSwallowed ==
    ServerErrorOfMutatingCall =>
        IF call.cl = "budgets" /\ call.status = 500
        THEN spc = "budgets" /\ sub = "loop" /\ idx = call.target + 1
        ELSE spc = "failed"

\* the creation of a budget was answered with 500 and the step went on
C25_BudgetErrorSwallowed ==
    /\ call.cl = "budgets" /\ call.kind = "create" /\ call.status = 500
    /\ spc = "budgets"
    /\ idx > 1

-----------------------------------------------------------------------------
(* The attribute diff against what the remote reports *)

\* the ways the remote may report a field the importer computes: not at all
\* (0), as the importer sends it, as null, with another value, or in another
\* form of the same value: the number as a string, the date with a time of day
Ways == 0..4

FieldReport(x, way) ==
    IF way = 1 THEN _json_default(x)
    ELSE IF way = 2 THEN NoneValue
    ELSE IF way = 3
    THEN (CASE x.t = "dec" -> IntValue(x.v + 1)
            [] x.t = "date" -> DateStrValue(x.v + 1)
            [] x.t = "bool" -> BoolValue(~x.v)
            [] OTHER -> StrValue("Other"))
    ELSE (CASE x.t = "dec" -> NumStrValue(x.v)
            [] x.t = "date" -> DateTimeStrValue(x.v)
            [] OTHER -> _json_default(x))

\* the attributes the remote reports for an entity the importer computes as
\* obj, field k in way ways[k], with or without a field of its own
AttributeReport(obj, ways, own) ==
    LET known == [k \in {x \in DOMAIN obj : ways[x] # 0} |-> FieldReport(obj[k], ways[k])]
    IN  IF own THEN Merge(known, [notes |-> StrValue("kept")]) ELSE known

\* a run without cache file against a remote that holds every entity of the
\* import data and reports the first budget, budget limit or asset account
\* in any of these ways
InitCompare ==
    /\ data \in {ImportData(FALSE, 0, FALSE),
                 [ImportData(FALSE, 0, FALSE) EXCEPT !.budget_history[1].amount = 0]}
    /\ Processed(SyncRegister)
    /\ PagesIdle
    /\ ForexIdle
    /\ \E cl \in {"budgets", "budget_limits", "asset_accounts"} :
          \E ways \in [DOMAIN TargetsOf(cl)[1].data -> Ways], own \in BOOLEAN :
             remote = [RemoteOf("synced") EXCEPT ![cl][TargetsOf(cl)[1].key].attributes =
                          AttributeReport(TargetsOf(cl)[1].data, ways, own)]
    /\ cache_file = NoCacheFile
    /\ RunStarts
    /\ idx = 0 /\ listing = <<>> /\ call = NoCall /\ step_calls = <<>> /\ unsaved = ""
    /\ baseline = NoBaseline
    /\ gix = 0 /\ current_month = 0 /\ upload_log = <<>>

\* the steps of Importer.run up to _create_transactions; the currencies of
\* this remote are those of the configuration
NextCompare ==
    \/ _load_cache
    \/ \E cl \in Classes : sync_fetch(cl)
    \/ \E cl \in EntityClasses : sync_target(cl)
    \/ \E cl \in Classes : sync_save(cl)

SpecCompare == InitCompare /\ [][NextCompare]_vars

\* the local value is zero (False counts as 0, as it does in Python)
IsZero(x) == x.t \in {"bool", "int", "dec"} /\ PyNum(x) = 0

\* local value x and reported value r are equal after normalization, with
\* every report of the calendar date of x taken as equal to x
EqualAsCalendarDates(x, r) ==
    IF r.t = "none" THEN IsZero(x)
    ELSE IF x.t = "date" THEN r.t \in {"datestr", "datetimestr"} /\ r.v = x.v
    ELSE IF x.t = "dec" THEN r.t \in {"int", "numstr"} /\ r.v = x.v
    ELSE x.t = r.t /\ x.v = r.v

\* the same with a date taken as equal only to the text YYYY-MM-DD of it
EqualAsDateTexts(x, r) ==
    IF x.t = "date" THEN r.t = "datestr" /\ r.v = x.v ELSE EqualAsCalendarDates(x, r)

\* target i of class cl was compared with the entry of the cache in the
\* step of the class that is running or has failed
ComparedTargets ==
    {<<cl, i>> \in (EntityClasses \ {"categories"}) \X (1..2) :
        /\ i <= Len(TargetsOf(cl))
        /\ \/ spc = cl /\ sub = "loop" /\ i < idx
           \/ spc = "failed" /\ call.cl = cl /\ call.kind = "update" /\ i <= call.target}

UpdateIssued(cl, i) ==
    \E j \in 1..Len(step_calls) :
        step_calls[j].kind = "update" /\ step_calls[j].cl = cl /\ step_calls[j].target = i

\* C26 as stated: an entity is updated if and only if a field the importer
\* computes differs from what the remote reports, where a date equals every
\* report of the same calendar date, a decimal every report of the same
\* number, and a missing or null report exactly a local zero; fields only
\* the remote reports play no part.
C26_UpdateIffFieldDiffers ==
    \A t \in ComparedTargets :
        LET obj   == TargetsOf(t[1])[t[2]].data
            attrs == firefly_data[t[1]][TargetsOf(t[1])[t[2]].key].attributes
        IN  UpdateIssued(t[1], t[2]) <=>
                \E k \in DOMAIN obj : ~EqualAsCalendarDates(obj[k], Get(attrs, k, NoneValue))

\* the same holds with a date equal only to the text YYYY-MM-DD of it
UpdateIffFieldDiffersAsText ==
    \A t \in ComparedTargets :
        LET obj   == TargetsOf(t[1])[t[2]].data
            attrs == firefly_data[t[1]][TargetsOf(t[1])[t[2]].key].attributes
        IN  UpdateIssued(t[1], t[2]) <=>
                \E k \in DOMAIN obj : ~EqualAsDateTexts(obj[k], Get(attrs, k, NoneValue))

-----------------------------------------------------------------------------
(* The cache file written and read back *)

\* names of a budget: without "::", with "::", and with "::" before a text
\* that reads as a date
BudgetNames == {"Groceries", "Fun::Games", "Loan::2020-01-01"}

\* the import data with the budgeted category under another name
RenamedData(name) ==
    [ImportData(FALSE, 0, FALSE) EXCEPT
        !.categories = <<name, "Rent">>,
        !.budgets = <<[name |-> name, active |-> TRUE], [name |-> "Rent", active |-> FALSE]>>,
        !.budget_history = <<[name |-> name, start |-> 101, end |-> 131, amount |-> 50]>>]

\* a first run without cache file against any remote; the process may die
\* and the importer be started again
InitCache ==
    /\ data \in {RenamedData(name) : name \in BudgetNames}
    /\ Processed(SyncRegister)
    /\ PagesIdle
    /\ ForexIdle
    /\ remote \in {RemoteOf(p) : p \in Profiles}
    /\ cache_file = NoCacheFile
    /\ RunStarts
    /\ idx = 0 /\ listing = <<>> /\ call = NoCall /\ step_calls = <<>> /\ unsaved = ""
    /\ baseline = NoBaseline
    /\ gix = 0 /\ current_month = 0 /\ upload_log = <<>>

NextCache ==
    \/ _load_cache
    \/ \E cl \in Classes : sync_skip_cached(cl)
    \/ \E cl \in Classes : sync_fetch(cl)
    \/ create_currencies_call
    \/ \E cl \in EntityClasses : sync_target(cl)
    \/ \E cl \in Classes : sync_save(cl)
    \/ Crash
    \/ Restart

SpecCache == InitCache /\ [][NextCache]_vars

\* the cache file holds what _update_cache has written of the cache in memory
JustWritten == cache_file.state = "json" /\ cache_file = CacheFileOf(firefly_data)

\* _load_cache reads the file and gets the mapping that was written
LoadsBack ==
    /\ budget_limits_loadable(cache_file.content.budget_limits)
    /\ budget_limits_from_json(cache_file.content.budget_limits) = firefly_data.budget_limits
    /\ forex_from_json(cache_file.content.forex_conversion) = firefly_data.forex_conversion

\* C27 as stated: the cache written and loaded back is the same mapping:
\* every key (budget name, start, end) and every key (currency, date) is
\* read back from its text as it was, whatever the name of the budget.
C27_CacheRoundTrip == JustWritten => LoadsBack

\* the same holds as long as no name of a budget holds "::"
CacheRoundTripOfPlainNames ==
    (JustWritten /\ \A i \in 1..Len(data.budgets) : Len(split_colons(data.budgets[i].name)) = 1)
        => LoadsBack

-----------------------------------------------------------------------------
(* The identifiers in the cache *)

\* the remote holds the entity of class cl that the identifier names: the
\* n-th entity under key k
ExistsInRemote(cl, id) ==
    /\ id[1] \in DOMAIN remote[cl]
    /\ id[2] >= 1 /\ id[2] <= remote[cl][id[1]].n

\* every identifier that content holds names an entity of the remote
RefersToRemote(content) ==
    \A cl \in EntityClasses :
        \A k \in DOMAIN content[cl] : ExistsInRemote(cl, content[cl][k].id)

\* C28: at every point of a run, also after the process has died between
\* two steps and the importer was started again, every identifier in the
\* cache in memory and in the cache file names an entity that the remote
\* holds: an entry is cached only from the response of a successful create
\* (or from a listing).
C28_CachedIdentifiersExist ==
    /\ RefersToRemote(firefly_data)
    /\ cache_file.state = "json" => RefersToRemote(cache_file.content)

\* a run started after the process had died has loaded identifiers from the
\* cache file and has created and cached a further entity
C28_CreatedAfterCrash ==
    /\ run = 2 /\ baseline.previous = "dead"
    /\ cache_file.state = "json" /\ DOMAIN cache_file.content.categories # {}
    /\ call.kind = "create" /\ call.status = 200
    /\ \E k \in DOMAIN firefly_data[call.cl] : firefly_data[call.cl][k].id[2] = remote[call.cl][k].n

-----------------------------------------------------------------------------
(* Any number of rows under one dedup key *)

RECURSIVE Flatten(_)
Flatten(seqs) == IF seqs = <<>> THEN <<>> ELSE Head(seqs) \o Flatten(Tail(seqs))

\* the transfer rows of dedup key `key` in the order in which the loop meets
\* them, each as fix_transfer leaves it
OccurrencesOf(key) ==
    LET met == Flatten(all_tx_grouped)
        fixed == [i \in 1..Len(met) |-> fix_transfer(met[i])]
    IN  SelectSeq(fixed, LAMBDA tx : is_transfer(tx) /\ transfer_seen_map_key(tx) = key)

\* the Transfer line items of dedup key `key` in the order of their emission
TransfersOf(key) ==
    LET items == Flatten([g \in 1..Len(transaction_groups) |-> transaction_groups[g].transactions])
    IN  SelectSeq(items, LAMBDA item :
            /\ item.type = "transfer"
            /\ <<{item.from_account, item.to_account}, item.date, item.amount.v>> = key)

DedupKeys ==
    {transfer_seen_map_key(fix_transfer(all_transactions[i])) :
        i \in {j \in 1..Len(all_transactions) : all_transactions[j].payee.marker}}

\* C35: of n transfer rows under one dedup key, in any order, ceil(n/2)
\* Transfer line items are emitted: the m-th emitted item is made from the
\* (2m-1)-th occurrence, every even occurrence is dropped, and the counter
\* of the key ends at 1 for odd n and at 2 for even n.
C35_OddOccurrencesEmitted ==
    ppc = "done" =>
        \A key \in DedupKeys :
            LET rows  == OccurrencesOf(key)
                items == TransfersOf(key)
                n     == Len(rows)
            IN  /\ Len(items) = (n + 1) \div 2
                /\ \A m \in 1..Len(items) :
                      /\ items[m].from_account = rows[2 * m - 1].account
                      /\ items[m].to_account = rows[2 * m - 1].payee.name
                /\ transfers_seen_map[key] = 2 - (n % 2)

\* three rows under one key have been processed, the first logged from
\* another account than the third, and two Transfers were emitted
C35_ThreeOccurrences ==
    /\ ppc = "done"
    /\ \E key \in DedupKeys : Len(OccurrencesOf(key)) = 3 /\ Len(TransfersOf(key)) = 2
                              /\ OccurrencesOf(key)[1].account # OccurrencesOf(key)[3].account

-----------------------------------------------------------------------------
(* The verification of the balances against a cache of an earlier run *)

\* what an earlier run has left on the remote: every entity of the import
\* data ("synced"), the same without the Savings account, which the register
\* did not hold then ("grown"), or with the Checking account changed on the
\* remote since ("changed")
EarlierRemote(profile) ==
    IF profile = "grown"
    THEN [RemoteOf("synced") EXCEPT
             !.asset_accounts = [k \in DOMAIN @ \ {"Savings"} |-> @[k]]]
    ELSE IF profile = "changed"
    THEN [RemoteOf("synced") EXCEPT
             !.asset_accounts["Checking"].attributes.active = BoolValue(FALSE)]
    ELSE RemoteOf("synced")

\* a run that finds every class in the cache file of the earlier run and
\* goes on to the upload
InitVerify ==
    /\ data \in {ImportData(FALSE, m, FALSE) : m \in {0, 201}}
    /\ Processed(UploadRegister)
    /\ PagesIdle
    /\ ForexIdle
    /\ remote \in {EarlierRemote(p) : p \in {"synced", "grown", "changed"}}
    /\ cache_file = CacheFileOf(SyncedCache(remote))
    /\ RunStarts
    /\ idx = 0 /\ listing = <<>> /\ call = NoCall /\ step_calls = <<>> /\ unsaved = ""
    /\ baseline = NoBaseline
    /\ gix = 0 /\ current_month = 0 /\ upload_log = <<>>

SpecVerify == InitVerify /\ [][NextUpload]_vars

\* a step of _verify_running_balance: the fetch, an iteration of the loop of
\* _create_asset_accounts, or the comparison of the balances
VerificationStep ==
    /\ spc = "transactions"
    /\ sub = "verify_loop" \/ sub' = "verify_loop"

\* C36 as stated: the verification of the balances at a month boundary only
\* reads from the remote: none of its steps issues a create or an update of
\* an account, changes the cache file, or changes the identifier the cache
\* holds for an account.
C36_VerificationOnlyReads ==
    [][VerificationStep =>
          /\ ~Mutating(call')
          /\ remote' = remote
          /\ cache_file' = cache_file
          /\ DOMAIN firefly_data'.asset_accounts = DOMAIN firefly_data.asset_accounts
          /\ \A k \in DOMAIN firefly_data.asset_accounts :
                firefly_data'.asset_accounts[k].id = firefly_data.asset_accounts[k].id]_vars

\* what holds of it: the cache file is not written, and an account that is
\* in the cache keeps its identifier
VerificationKeepsCacheFile ==
    [][VerificationStep =>
          /\ cache_file' = cache_file
          /\ \A k \in DOMAIN firefly_data.asset_accounts :
                /\ k \in DOMAIN firefly_data'.asset_accounts
                /\ firefly_data'.asset_accounts[k].id = firefly_data.asset_accounts[k].id]_vars

-----------------------------------------------------------------------------
(* The months that are verified *)

Verifications == {i \in 1..Len(upload_log) : upload_log[i].kind = "verify"}

\* a run that has ended without error has verified every month of which it
\* posted a group
PostedMonthsVerified ==
    spc = "done" =>
        \A i \in Posts :
            \E v \in Verifications : upload_log[v].month = upload_log[i].month /\ upload_log[v].ok

\* a verification is of the month of the post before it
VerifiedMonthIsOfLastPost ==
    \A v \in Verifications :
        \E i \in Posts :
            /\ i < v
            /\ \A p \in Posts : ~(i < p /\ p < v)
            /\ upload_log[i].month = upload_log[v].month

\* C34 as stated: at the end of a run without error the balances of every
\* month of which a group was posted have been verified, the month of the
\* last group included; and a verification at a boundary is always of the
\* month of the group posted last, also when a minimum date passes over the
\* first groups.
C34_EveryPostedMonthVerified == PostedMonthsVerified /\ VerifiedMonthIsOfLastPost

-----------------------------------------------------------------------------
(* Duplicates reported for a part of a group *)

\* a register with a split of two withdrawals in January and a withdrawal
\* in February
DuplicatesRegister ==
    <<RowWithBalance("Checking", 101, StartingBalance, 0, 100, 100),
      [RowWithBalance("Checking", 131, Payee("Shop"), 10, 0, 85) EXCEPT !.split = TRUE],
      [RowWithBalance("Checking", 131, Payee("Shop"), 5, 0, 85) EXCEPT !.split = TRUE],
      RowWithBalance("Checking", 201, Payee("Shop"), 30, 0, 55)>>

\* a run that finds every class cached and goes on to the upload; the remote
\* answers a POST of a group with any status and any errors object
InitDuplicates ==
    /\ data \in {ImportData(FALSE, m, TRUE) : m \in {0, 201}}
    /\ Processed(DuplicatesRegister)
    /\ PagesIdle
    /\ ForexIdle
    /\ remote = RemoteOf("synced")
    /\ cache_file = CacheFileOf(SyncedCache(remote))
    /\ RunStarts
    /\ idx = 0 /\ listing = <<>> /\ call = NoCall /\ step_calls = <<>> /\ unsaved = ""
    /\ baseline = NoBaseline
    /\ gix = 0 /\ current_month = 0 /\ upload_log = <<>>

SpecDuplicates == InitDuplicates /\ [][NextUpload]_vars

\* the last step posted a group, the remote rejected it and the loop went on
\* to the next group
RejectedGroupSkipped ==
    /\ call.kind = "transactions" /\ call.status # 200
    /\ spc = "transactions" /\ gix = call.target + 1

\* the line items (by index, from 0) for which the rejection reports one
\* duplicate
ReportedDuplicates(errors) ==
    {k.tx_idx : k \in {f \in DOMAIN errors :
                          /\ f.field = "transactions"
                          /\ Len(errors[f]) = 1 /\ DUPLICATE_TX_RE_match(errors[f][1])}}

\* C33 as stated: a rejected group is passed over only when every line item
\* of it is reported as a duplicate; with duplicates reported for some of
\* the line items only, the group is not passed over (the run aborts).
C33_SkippedOnlyIfAllDuplicates ==
    RejectedGroupSkipped =>
        \A i \in 1..Len(transaction_groups[call.target].transactions) :
            (i - 1) \in ReportedDuplicates(call.errors)

\* what holds of a group that is passed over: the rejection is a 422 that
\* reports at least one duplicate and nothing else
SkippedOnlyIfNothingButDuplicates ==
    RejectedGroupSkipped =>
        /\ call.status = 422
        /\ \A f \in DOMAIN call.errors :
              /\ f.field = "transactions"
              /\ Len(call.errors[f]) = 1 /\ DUPLICATE_TX_RE_match(call.errors[f][1])

-----------------------------------------------------------------------------
(* The cached accounts of the payees *)

\* the line items whose payee is an account of class cl
ItemsOfPayeeClass(cl) ==
    {item \in EmittedItems :
        item.type = (IF cl = "revenue_accounts" THEN "deposit" ELSE "withdrawal")}

\* C31 as stated: once the steps of the revenue and of the expense accounts
\* are over, the upload can read the identifier of the account of the payee
\* of every Deposit and Withdrawal from the cache, whether the entry came
\* from the listing or from a create of this run: every entry of the two
\* classes is a record of the remote (a dict with "id"), in memory and in
\* the cache file as _load_cache accepts it.
C31_PayeeAccountsReadable ==
    /\ spc = "transactions" =>
          \A cl \in {"revenue_accounts", "expense_accounts"} :
              /\ \A item \in ItemsOfPayeeClass(cl) : HasId(cl, item.payee)
              /\ \A k \in DOMAIN firefly_data[cl] : firefly_data[cl][k].shape = "dict"
    /\ (cache_file.state = "json" /\ spc \in {"transactions", "done"}) => WellTyped(cache_file.content)

-----------------------------------------------------------------------------
(* The cached budgets *)

\* C32 as stated: whenever _create_budgets is over and the run goes on,
\* the cache holds an entry with the identifier of every budget of the
\* import data, also after a 5xx answer to the creation of a budget was
\* swallowed; _create_budget_limits and the upload find every budget.
C32_EveryBudgetCached ==
    spc = "budget_limits" =>
        \A i \in 1..Len(data.budgets) : HasId("budgets", data.budgets[i].name)

\* what holds: every budget is cached unless the creation of a budget was
\* answered with 500 in this run or in the run that wrote the cache file
EveryBudgetCachedWithoutSwallowedError ==
    (/\ spc = "budget_limits" /\ sub = "check"
     /\ \A j \in 1..Len(step_calls) : step_calls[j].status # 500
     /\ step_calls # <<>>)
    => \A i \in 1..Len(data.budgets) : HasId("budgets", data.budgets[i].name)

=============================================================================
